---- MODULE Spec2Model ----
(***************************************************************************)
(* Model of the TSV repair utility                                         *)
(* (src/batch-gemini-image-text-production/repair.py).                     *)
(*                                                                         *)
(* A Python str is a sequence of characters; a character is a one-symbol   *)
(* TLA+ string.  ASCII characters stand for themselves; the non-ASCII      *)
(* characters that occur in the source or in the inputs carry a name:      *)
(*   "a_grave" U+00E0   "e_acute" U+00E9   "o_circ" U+00F4                 *)
(*   "A_breve" U+0102   "a_breve" U+0103   "nbsp"   U+00A0                 *)
(*   "A_circ"  U+00C2   "a_circ"  U+00E2   "dblacute" U+02DD               *)
(*   "acute"   U+00B4   "copyright" U+00A9 "euro" U+20AC  "tm" U+2122      *)
(*   "half"    U+00BD                                                      *)
(* The source file stores its accented literals as the two-character       *)
(* sequences U+0102 U+00A0 (for a-grave), U+0102 U+00A9 (for e-acute),     *)
(* U+0102 U+00B4 (for o-circumflex) and U+00C2 U+02DD (for one-half); the  *)
(* patterns below are transcribed from those characters as they are.       *)
(***************************************************************************)
EXTENDS Integers, Sequences, FiniteSets, TLC

\* ------------------------------------------------------------------------
\* Characters (Python str methods and the character classes of module re)
\* ------------------------------------------------------------------------

LowerLetters == <<"a","b","c","d","e","f","g","h","i","j","k","l","m",
                  "n","o","p","q","r","s","t","u","v","w","x","y","z",
                  "a_grave","e_acute","o_circ","a_breve","a_circ">>

UpperLetters == <<"A","B","C","D","E","F","G","H","I","J","K","L","M",
                  "N","O","P","Q","R","S","T","U","V","W","X","Y","Z",
                  "A_grave","E_acute","O_circ","A_breve","A_circ">>

Digits == {"0","1","2","3","4","5","6","7","8","9"}

Range(f) == {f[x] : x \in DOMAIN f}

\* \s of re and the characters str.strip() removes
Whitespace == {" ", "\t", "nbsp"}

\* \w of re (str patterns): alphanumerics and the underscore
WordChars == Range(LowerLetters) \cup Range(UpperLetters) \cup Digits \cup {"_", "half"}

\* the other-case form of a character (itself when it has none)
SwapCase(c) ==
  IF \E n \in DOMAIN LowerLetters : LowerLetters[n] = c
    THEN UpperLetters[CHOOSE n \in DOMAIN LowerLetters : LowerLetters[n] = c]
  ELSE IF \E n \in DOMAIN UpperLetters : UpperLetters[n] = c
    THEN LowerLetters[CHOOSE n \in DOMAIN UpperLetters : UpperLetters[n] = c]
  ELSE c

\* str.lower() on one character
LowerChar(c) ==
  IF \E n \in DOMAIN UpperLetters : UpperLetters[n] = c THEN SwapCase(c) ELSE c

\* ------------------------------------------------------------------------
\* str operations
\* ------------------------------------------------------------------------

\* str.strip(): drop leading and trailing whitespace
RECURSIVE LStrip(_)
LStrip(s) == IF s # <<>> /\ Head(s) \in Whitespace THEN LStrip(Tail(s)) ELSE s

RECURSIVE RStrip(_)
RStrip(s) ==
  IF s # <<>> /\ s[Len(s)] \in Whitespace THEN RStrip(SubSeq(s, 1, Len(s) - 1)) ELSE s

Strip(s) == RStrip(LStrip(s))

\* str.lower()
Lower(s) == [n \in 1..Len(s) |-> LowerChar(s[n])]

\* str.count(c)
Count(s, c) == Cardinality({n \in 1..Len(s) : s[n] = c})

\* index of the first occurrence of c in s, 0 when there is none
FirstIndex(s, c) ==
  LET at == {n \in 1..Len(s) : s[n] = c} IN
  IF at = {} THEN 0 ELSE CHOOSE n \in at : \A m \in at : n <= m

\* str.split(c): the substrings between the occurrences of c (never empty list)
RECURSIVE Split(_, _)
Split(s, c) ==
  LET k == FirstIndex(s, c) IN
  IF k = 0 THEN <<s>>
  ELSE <<SubSeq(s, 1, k - 1)>> \o Split(SubSeq(s, k + 1, Len(s)), c)

\* str.partition(c): <<before, after>> around the first c
Partition(s, c) ==
  LET k == FirstIndex(s, c) IN
  IF k = 0 THEN <<s, <<>>>>
  ELSE <<SubSeq(s, 1, k - 1), SubSeq(s, k + 1, Len(s))>>

\* sep.join(xs)
RECURSIVE Join(_, _)
Join(sep, xs) ==
  IF xs = <<>> THEN <<>>
  ELSE IF Len(xs) = 1 THEN xs[1]
  ELSE xs[1] \o sep \o Join(sep, Tail(xs))

\* del xs[k]
RemoveAt(xs, k) == SubSeq(xs, 1, k - 1) \o SubSeq(xs, k + 1, Len(xs))

\* ------------------------------------------------------------------------
\* Regular expressions of module re, as syntax trees with a matcher
\* ------------------------------------------------------------------------

Cls(S) == [k |-> "cls", cs |-> S]       \* [...] or a single literal
Lit(c) == Cls({c})
WB == [k |-> "wb"]                       \* \b
Cat(rs) == [k |-> "cat", rs |-> rs]      \* concatenation
Alt(rs) == [k |-> "alt", rs |-> rs]      \* a|b|...
Opt(r) == [k |-> "opt", r |-> r]         \* r?
Star(r) == [k |-> "star", r |-> r]       \* r*
Str(s) == Cat([n \in 1..Len(s) |-> Lit(s[n])])   \* a literal word

\* \b at position i: exactly one of s[i-1], s[i] is a word character
AtBoundary(s, i) ==
  LET before == i > 1 /\ s[i - 1] \in WordChars
      after == i <= Len(s) /\ s[i] \in WordChars
  IN before # after

\* Ends(r, s, i): every j such that r matches s[i .. j-1]
RECURSIVE Ends(_, _, _), CatEnds(_, _, _, _), StarEnds(_, _, _, _)
Ends(r, s, i) ==
  CASE r.k = "cls" -> IF i <= Len(s) /\ s[i] \in r.cs THEN {i + 1} ELSE {}
    [] r.k = "wb" -> IF AtBoundary(s, i) THEN {i} ELSE {}
    [] r.k = "cat" -> CatEnds(r.rs, 1, s, {i})
    [] r.k = "alt" -> UNION {Ends(r.rs[n], s, i) : n \in 1..Len(r.rs)}
    [] r.k = "opt" -> {i} \cup Ends(r.r, s, i)
    [] r.k = "star" -> StarEnds(r.r, s, {i}, {i})

CatEnds(rs, n, s, from) ==
  IF n > Len(rs) \/ from = {} THEN from
  ELSE CatEnds(rs, n + 1, s, UNION {Ends(rs[n], s, i) : i \in from})

StarEnds(r, s, frontier, acc) ==
  LET nxt == UNION {Ends(r, s, i) : i \in frontier} \ acc IN
  IF nxt = {} THEN acc ELSE StarEnds(r, s, nxt, acc \cup nxt)

\* re.IGNORECASE: every character also matches in its other case
RECURSIVE IgnoreCase(_)
IgnoreCase(r) ==
  CASE r.k = "cls" -> Cls(r.cs \cup {SwapCase(c) : c \in r.cs})
    [] r.k = "wb" -> r
    [] r.k = "cat" -> Cat([n \in 1..Len(r.rs) |-> IgnoreCase(r.rs[n])])
    [] r.k = "alt" -> Alt([n \in 1..Len(r.rs) |-> IgnoreCase(r.rs[n])])
    [] r.k = "opt" -> Opt(IgnoreCase(r.r))
    [] r.k = "star" -> Star(IgnoreCase(r.r))

\* start of the leftmost match of r in s, 0 when r matches nowhere
SearchStart(r, s) ==
  LET starts == {i \in 1..(Len(s) + 1) : Ends(r, s, i) # {}} IN
  IF starts = {} THEN 0 ELSE CHOOSE i \in starts : \A j \in starts : i <= j

\* bool(pattern.search(s))
Search(r, s) == SearchStart(r, s) # 0

\* ------------------------------------------------------------------------
\* The patterns of repair.py
\* ------------------------------------------------------------------------

D == Cls(Digits)                      \* \d
S == Cls(Whitespace)                  \* \s
Dot == Opt(Lit("."))                  \* \.?
D12 == Cat(<<D, Opt(D)>>)             \* \d{1,2}
Plus(r) == Cat(<<r, Star(r)>>)        \* r+

\* r"(\d{4})"
YEAR_PATTERN == Cat(<<D, D, D, D>>)

\* (?:\s*[<U+00C2><U+02DD>1/2])?
HalfSuffix == Opt(Cat(<<Star(S), Cls({"A_circ", "dblacute", "1", "/", "2"})>>))

HORAIRES_PATTERNS ==
  Alt(<<
    \* \b(?:Lun|Mar|Mer|Jeu|Ven|Sam|Dim)\b
    Cat(<<WB, Alt(<<Str(<<"L","u","n">>), Str(<<"M","a","r">>), Str(<<"M","e","r">>),
                    Str(<<"J","e","u">>), Str(<<"V","e","n">>), Str(<<"S","a","m">>),
                    Str(<<"D","i","m">>)>>), WB>>),
    \* \b\d{1,2}(?:\s*[..])?\s*<U+0102><U+00A0>\s*\d{1,2}(?:\s*[..])?\b
    Cat(<<WB, D12, HalfSuffix, Star(S), Lit("A_breve"), Lit("nbsp"), Star(S),
          D12, HalfSuffix, WB>>),
    \* \bmidi\b
    Cat(<<WB, Str(<<"m","i","d","i">>), WB>>),
    \* \bsoir\b
    Cat(<<WB, Str(<<"s","o","i","r">>), WB>>)
  >>)

\* (?:d[eu]s?\s*)
DeDu == Cat(<<Lit("d"), Cls({"e", "u"}), Opt(Lit("s")), Star(S)>>)

\* H[<U+0102><U+00B4>o0]p\.?\b
Hop == Cat(<<Lit("H"), Cls({"A_breve", "acute", "o", "0"}), Lit("p"), Dot, WB>>)

\* [<U+0102><U+00A9>e]
Eacute == Cls({"A_breve", "copyright", "e"})

NOTES_PATTERNS ==
  <<
    \* \bA\s*cc?\.?\s*(?:d[eu]s?\s*)?H[..]p\.?\b
    Cat(<<WB, Lit("A"), Star(S), Lit("c"), Opt(Lit("c")), Dot, Star(S), Opt(DeDu), Hop>>),
    \* \bM\.?\s*(?:d[eu]s?\s*)?H[..]p\.?\b
    Cat(<<WB, Lit("M"), Dot, Star(S), Opt(DeDu), Hop>>),
    \* \bCh?\.?\s*(?:d[eu]s?\s*)?H[..]p\.?\b
    Cat(<<WB, Lit("C"), Opt(Lit("h")), Dot, Star(S), Opt(DeDu), Hop>>),
    \* \bAgr[..]?(?:g[..])?\.?\b
    Cat(<<WB, Str(<<"A","g","r">>), Opt(Eacute), Opt(Cat(<<Lit("g"), Eacute>>)), Dot, WB>>),
    \* \bP\.?\s*F\.?\s*P\.?\b
    Cat(<<WB, Lit("P"), Dot, Star(S), Lit("F"), Dot, Star(S), Lit("P"), Dot, WB>>),
    \* \bM\.?\s*A\.?\s*M\.?\b
    Cat(<<WB, Lit("M"), Dot, Star(S), Lit("A"), Dot, Star(S), Lit("M"), Dot, WB>>),
    \* \bM\.?\s*A\.?\s*S\.?\b
    Cat(<<WB, Lit("M"), Dot, Star(S), Lit("A"), Dot, Star(S), Lit("S"), Dot, WB>>),
    \* \bEx[\-\s]*(?:ou\s+anc\.?\s*)?(?:Int|Intern[ei])\.?\s*d[eu]s?\s*H[..]p\.?\b
    Cat(<<WB, Str(<<"E","x">>), Star(Cls({"-"} \cup Whitespace)),
          Opt(Cat(<<Str(<<"o","u">>), Plus(S), Str(<<"a","n","c">>), Dot, Star(S)>>)),
          Alt(<<Str(<<"I","n","t">>),
                Cat(<<Str(<<"I","n","t","e","r","n">>), Cls({"e", "i"})>>)>>),
          Dot, Star(S), DeDu, Hop>>),
    \* \bLaur?\.?\s*d[eu]\s*l[<U+00E2><U+20AC><U+2122>']?Acad\.?\b
    Cat(<<WB, Str(<<"L","a","u">>), Opt(Lit("r")), Dot, Star(S), Lit("d"), Cls({"e", "u"}),
          Star(S), Lit("l"), Opt(Cls({"a_circ", "euro", "tm", "'"})),
          Str(<<"A","c","a","d">>), Dot, WB>>),
    \* \bDent?\.?\b
    Cat(<<WB, Str(<<"D","e","n">>), Opt(Lit("t")), Dot, WB>>),
    \* \bH[..]p\.?\b
    Cat(<<WB, Hop>>),
    \* \bM[..]d\.?\b
    Cat(<<WB, Lit("M"), Eacute, Lit("d"), Dot, WB>>),
    \* \bChir?\.?\b
    Cat(<<WB, Str(<<"C","h","i">>), Opt(Lit("r")), Dot, WB>>),
    \* \bProf?\.?\b
    Cat(<<WB, Str(<<"P","r","o">>), Opt(Lit("f")), Dot, WB>>),
    \* \bPros?\.?\b
    Cat(<<WB, Str(<<"P","r","o">>), Opt(Lit("s")), Dot, WB>>),
    \* \bPr[..]p\.?\b
    Cat(<<WB, Str(<<"P","r">>), Eacute, Lit("p"), Dot, WB>>),
    \* \bClin?\.?\b
    Cat(<<WB, Str(<<"C","l","i">>), Opt(Lit("n")), Dot, WB>>),
    \* \bMal\.?\b
    Cat(<<WB, Str(<<"M","a","l">>), Dot, WB>>)
  >>

\* [re.compile(pattern, re.IGNORECASE) for pattern in (...)]
NOTES_REGEXES == [n \in 1..Len(NOTES_PATTERNS) |-> IgnoreCase(NOTES_PATTERNS[n])]

\* DEFAULT_HEADERS = ["nom", "ann<U+0102><U+00A9>e", "notes", "adresse", "horaires"]
H_nom == <<"n","o","m">>
H_annee == <<"a","n","n","A_breve","copyright","e">>
H_notes == <<"n","o","t","e","s">>
H_adresse == <<"a","d","r","e","s","s","e">>
H_horaires == <<"h","o","r","a","i","r","e","s">>
DEFAULT_HEADERS == <<H_nom, H_annee, H_notes, H_adresse, H_horaires>>

\* ------------------------------------------------------------------------
\* The pieces the input lines are made of
\* ------------------------------------------------------------------------

T_1887 == <<"1","8","8","7">>
T_midi21887 == <<"m","i","d","i"," ","2","1","8","8","7"," ">>
T_Lun == <<"L","u","n">>
T_2a4 == <<"2"," ","a_grave"," ","4">>
T_AncIntHop == <<"A","n","c","."," ","I","n","t","."," ","H","o_circ","p",".",","," ",
                 "1","2"," ","r","u","e"," ","d","e"," ","l","a"," ","P","a","i","x">>
T_MHop == <<"M","."," ","H","o","p",".",","," ","3"," ","r","u","e">>
T_Prof == <<"P","r","o","f",".">>
T_blank == <<" ">>
T_Dupont == <<"D","u","p","o","n","t">>
T_12rue == <<"1","2"," ","r","u","e">>
T_a == <<" ","a"," ">>
T_1885 == <<"1","8","8","5">>
T_Medecin12rue == <<"M","e_acute","d","e","c","i","n",","," ",
                    "1","2"," ","r","u","e"," ","d","e"," ","l","a"," ","P","a","i","x">>
T_2a4h == <<"2"," ","a_grave"," ","4","h">>
\* the same words with single spaces and no tab
T_q12rue == <<"1","2"," ","\"","r","u","e","\"">>
T_NoTab == <<"D","u","p","o","n","t"," ","1","8","8","5"," ",
             "M","e_acute","d","e","c","i","n"," ",
             "1","2"," ","r","u","e"," ","d","e"," ","l","a"," ","P","a","i","x"," ",
             "2"," ","a_grave"," ","4","h">>

Catalogue ==
  {T_1887, T_midi21887, T_Lun, T_2a4, T_AncIntHop, T_MHop, T_Prof, T_blank}

\* ------------------------------------------------------------------------
\* repair_line(raw_line, headers)
\* ------------------------------------------------------------------------

\* Optional[...]: None, or the value wrapped
None == <<>>
Some(x) == <<x>>

Min(a, b) == IF a < b THEN a ELSE b

\* Parts without the "if part.strip()" filter
Parts_KeepEmpty(raw_line) ==
  LET pieces == Split(raw_line, "\t") IN [n \in 1..Len(pieces) |-> Strip(pieces[n])]

\* parts = [part.strip() for part in raw_line.split("\t") if part.strip()]
Parts(raw_line) ==
  LET pieces == Split(raw_line, "\t")
      stripped == [n \in 1..Len(pieces) |-> Strip(pieces[n])]
  IN SelectSeq(stripped, LAMBDA part : part # <<>>)

\* re.search(r"(\d{4})", fragment), HORAIRES_PATTERNS.search(fragment) and
\* regex.search(fragment) for the n-th of NOTES_REGEXES, as truth values.
YearSearch(fragment) == Search(YEAR_PATTERN, fragment)
HorairesSearch(fragment) == Search(HORAIRES_PATTERNS, fragment)
NotesSearch(n, fragment) == Search(NOTES_REGEXES[n], fragment)

\* year_match.group(1): the text of the leftmost match
YearGroup(fragment) ==
  LET st == SearchStart(YEAR_PATTERN, fragment) IN SubSeq(fragment, st, st + 3)

\* year extraction taking the last fragment with four digits, not the first
ExtractYear_Last(remaining) ==
  LET hits == {n \in 1..Len(remaining) : Search(YEAR_PATTERN, remaining[n])} IN
  IF hits = {} THEN [annee |-> <<>>, remaining |-> remaining, idx |-> 0]
  ELSE LET idx == CHOOSE n \in hits : \A m \in hits : n >= m
           st == SearchStart(YEAR_PATTERN, remaining[idx])
       IN [annee |-> SubSeq(remaining[idx], st, st + 3),
           remaining |-> SubSeq(remaining, 1, idx - 1) \o SubSeq(remaining, idx + 1, Len(remaining)),
           idx |-> idx]

\* for idx, fragment in enumerate(remaining): if year_match: ... break
\* idx is the position deleted from remaining (0: no fragment matched)
ExtractYear(remaining) ==
  LET hits == {n \in 1..Len(remaining) : YearSearch(remaining[n])} IN
  IF hits = {} THEN [annee |-> <<>>, remaining |-> remaining, idx |-> 0]
  ELSE LET idx == CHOOSE n \in hits : \A m \in hits : n <= m IN
       [annee |-> YearGroup(remaining[idx]),
        remaining |-> RemoveAt(remaining, idx),
        idx |-> idx]

\* hours extraction without "del remaining[idx]"
ExtractHours_Keep(remaining) ==
  LET hits == {n \in 1..Len(remaining) : Search(HORAIRES_PATTERNS, remaining[n])} IN
  IF hits = {} THEN [horaires |-> <<>>, remaining |-> remaining, idx |-> 0]
  ELSE LET idx == CHOOSE n \in hits : \A m \in hits : n >= m IN
       [horaires |-> remaining[idx], remaining |-> remaining, idx |-> idx]

\* for idx in range(len(remaining) - 1, -1, -1): if HORAIRES_PATTERNS.search: ... break
ExtractHours(remaining) ==
  LET hits == {n \in 1..Len(remaining) : HorairesSearch(remaining[n])} IN
  IF hits = {} THEN [horaires |-> <<>>, remaining |-> remaining, idx |-> 0]
  ELSE LET idx == CHOOSE n \in hits : \A m \in hits : n >= m IN
       [horaires |-> remaining[idx],
        remaining |-> RemoveAt(remaining, idx),
        idx |-> idx]

\* a scan that tries the first pattern of the list only
FirstMatch_HeadOnly(order, fragment) ==
  IF order # <<>> /\ Search(NOTES_REGEXES[order[1]], fragment) THEN 1 ELSE 0

\* any(regex.search(fragment) for regex in regexes): the generator is consumed
\* in list order and any() stops at the first true element.  FirstMatch is
\* the position of that element in the list, 0 when any() exhausts the list.
\* order lists the patterns by number, in the order the list holds them.
FirstMatch(order, fragment) ==
  LET hits == {k \in 1..Len(order) : NotesSearch(order[k], fragment)} IN
  IF hits = {} THEN 0 ELSE CHOOSE k \in hits : \A m \in hits : k <= m

\* NOTES_REGEXES in its declared order
Declared == [n \in 1..Len(NOTES_REGEXES) |-> n]

Matched(fragment) == FirstMatch(Declared, fragment) # 0

\* the body of "for fragment in remaining" (lines 165-175) for one fragment
ClassifyOne(fragment) ==
  IF Matched(fragment)
    THEN IF Count(fragment, ",") > 0
           THEN LET note_part == Strip(Partition(fragment, ",")[1])
                    addr_part == Strip(Partition(fragment, ",")[2])
                IN [notes |-> <<note_part>>,
                    adresse |-> IF addr_part # <<>> THEN <<addr_part>> ELSE <<>>]
           ELSE [notes |-> <<fragment>>, adresse |-> <<>>]
    ELSE [notes |-> <<>>, adresse |-> <<fragment>>]

\* the whole loop: notes_segments and adresse_segments in append order
RECURSIVE Classify(_)
Classify(remaining) ==
  IF remaining = <<>> THEN [notes |-> <<>>, adresse |-> <<>>]
  ELSE LET one == ClassifyOne(Head(remaining))
           rest == Classify(Tail(remaining))
       IN [notes |-> one.notes \o rest.notes, adresse |-> one.adresse \o rest.adresse]

CommaSpace == <<",", " ">>

\* lines 181-184: the list is extended when the lengths differ (a negative
\* repeat count extends by nothing); the elif branch is never taken
Repeat(x, n) == IF n > 0 THEN [i \in 1..n |-> x] ELSE <<>>     \* [x] * n

PadFields(fields, headers) ==
  IF Len(fields) # Len(headers)
    THEN fields \o Repeat(<<>>, Len(headers) - Len(fields))
    ELSE fields

\* dict(zip(keys, values)): pairs up to the shorter length, a later pair
\* replacing an earlier one with the same key
DictZip(keys, values) ==
  LET n == Min(Len(keys), Len(values)) IN
  [key \in {keys[i] : i \in 1..n} |->
     values[CHOOSE i \in 1..n : keys[i] = key /\ \A j \in (i + 1)..n : keys[j] # key]]

\* lines 177-186
Assemble(nom, annee, notes_segments, adresse_segments, horaires, headers) ==
  LET notes == Join(CommaSpace, notes_segments)
      adresse == Join(CommaSpace, adresse_segments)
      fields == PadFields(<<nom, annee, notes, adresse, horaires>>, headers)
  IN DictZip(headers, fields)

\* repair_line as one function: None or Some(record)
repair_line(raw_line, headers) ==
  IF headers = <<>> THEN None
  ELSE LET parts == Parts(raw_line) IN
    IF parts = <<>> THEN None
    ELSE LET y == ExtractYear(Tail(parts))
             h == ExtractHours(y.remaining)
             c == Classify(h.remaining)
         IN Some(Assemble(Head(parts), y.annee, c.notes, c.adresse, h.horaires, headers))

\* ------------------------------------------------------------------------
\* csv.reader / csv.writer with delimiter="\t" (excel dialect otherwise:
\* quotechar '"', doublequote, QUOTE_MINIMAL, not strict)
\* ------------------------------------------------------------------------

TAB == "\t"
QUOTE == "\""

\* next(csv.reader([line], delimiter="\t")): the reader's state machine run
\* over one line and then the end of the input
RECURSIVE CsvScan(_, _, _, _, _)
CsvScan(line, i, st, field, fields) ==
  IF i > Len(line)
    THEN IF st = "START_RECORD" THEN fields
         ELSE IF st = "START_FIELD" THEN Append(fields, <<>>)
         ELSE Append(fields, field)
    ELSE LET c == line[i] IN
      CASE st \in {"START_RECORD", "START_FIELD"} ->
             IF c = QUOTE THEN CsvScan(line, i + 1, "IN_QUOTED_FIELD", <<>>, fields)
             ELSE IF c = TAB
               THEN CsvScan(line, i + 1, "START_FIELD", <<>>, Append(fields, <<>>))
             ELSE CsvScan(line, i + 1, "IN_FIELD", <<c>>, fields)
        [] st = "IN_FIELD" ->
             IF c = TAB
               THEN CsvScan(line, i + 1, "START_FIELD", <<>>, Append(fields, field))
             ELSE CsvScan(line, i + 1, "IN_FIELD", Append(field, c), fields)
        [] st = "IN_QUOTED_FIELD" ->
             IF c = QUOTE
               THEN CsvScan(line, i + 1, "QUOTE_IN_QUOTED_FIELD", field, fields)
             ELSE CsvScan(line, i + 1, "IN_QUOTED_FIELD", Append(field, c), fields)
        [] st = "QUOTE_IN_QUOTED_FIELD" ->
             IF c = QUOTE
               THEN CsvScan(line, i + 1, "IN_QUOTED_FIELD", Append(field, c), fields)
             ELSE IF c = TAB
               THEN CsvScan(line, i + 1, "START_FIELD", <<>>, Append(fields, field))
             ELSE CsvScan(line, i + 1, "IN_FIELD", Append(field, c), fields)

CsvReadRow(line) == CsvScan(line, 1, "START_RECORD", <<>>, <<>>)

\* one field as csv.writer emits it: quoted, with quotes doubled, when it
\* holds the delimiter or the quote character
RECURSIVE DoubleQuotes(_)
DoubleQuotes(f) ==
  IF f = <<>> THEN <<>>
  ELSE (IF Head(f) = QUOTE THEN <<QUOTE, QUOTE>> ELSE <<Head(f)>>) \o DoubleQuotes(Tail(f))

CsvField(f) ==
  IF \E n \in 1..Len(f) : f[n] \in {TAB, QUOTE}
    THEN <<QUOTE>> \o DoubleQuotes(f) \o <<QUOTE>>
    ELSE f

\* writer.writerow(fields), without the line terminator; a row of one empty
\* field is written as a pair of quotes
CsvWriteRow(fields) ==
  IF fields = <<<<>>>> THEN <<QUOTE, QUOTE>>
  ELSE Join(<<TAB>>, [n \in 1..Len(fields) |-> CsvField(fields[n])])

\* ------------------------------------------------------------------------
\* read_tsv(tsv_path) and repair_file(tsv_path, output_base, input_root)
\* ------------------------------------------------------------------------

\* _looks_like_header(headers)
looks_like_header(hs) ==
  \E n \in 1..Len(hs) :
    Lower(Strip(hs[n])) \in {H_nom, H_annee, H_notes, H_adresse, H_horaires}

\* lines 58-72 of read_tsv, for a file of at least one line
ReadHeader(lines) ==
  LET candidate_headers == CsvReadRow(lines[1])
      missing_header == ~looks_like_header(candidate_headers)
  IN IF missing_header /\ Len(candidate_headers) = Len(DEFAULT_HEADERS)
       THEN [headers |-> DEFAULT_HEADERS, data_lines |-> lines, start_offset |-> 1]
       ELSE [headers |-> candidate_headers, data_lines |-> Tail(lines), start_offset |-> 2]

\* an expected tab count that is one too small
ExpectedTabs_OneLess(hs) == IF Len(hs) - 2 > 0 THEN Len(hs) - 2 ELSE 0

\* expected_tabs = max(len(headers) - 1, 0)
ExpectedTabs(hs) == IF Len(hs) - 1 > 0 THEN Len(hs) - 1 ELSE 0

\* [row.get(header, "") for header in headers]
RowValues(row, hs) ==
  [n \in 1..Len(hs) |-> IF hs[n] \in DOMAIN row THEN row[hs[n]] ELSE <<>>]

\* the lines repair_file writes: the header row, then one row per record
OutputLines(hs, rs) ==
  <<CsvWriteRow(hs)>> \o [n \in 1..Len(rs) |-> CsvWriteRow(RowValues(rs[n], hs))]

\* ------------------------------------------------------------------------
\* Inputs
\* ------------------------------------------------------------------------

MaxParts == 3     \* tab-separated pieces of a line handed to repair_line
MaxLines == 2     \* data lines of an input file

Lines ==
  {Join(<<TAB>>, ps) : ps \in UNION {[1..n -> Catalogue] : n \in 0..MaxParts}}

\* header lists handed to repair_line: none, the five default names, more
\* than five, and fewer than five with a name repeated
HeaderLists ==
  {<<>>,
   DEFAULT_HEADERS,
   DEFAULT_HEADERS \o <<<<"x">>>>,
   <<H_nom, H_nom, H_notes>>}

\* first lines of an input file
F_annee == <<"a","n","n","e_acute","e">>
HeaderLines ==
  {Join(<<TAB>>, <<H_nom, F_annee, H_notes, H_adresse, H_horaires>>),  \* the usual header
   <<>>,                                                                \* an empty first line
   Join(<<TAB>>, <<<<"x">>, <<"y">>>>),                                 \* two unknown names
   Join(<<TAB>>, <<H_nom, H_nom>>),                                     \* a repeated name
   Join(<<TAB>>, <<T_Dupont, T_1887, <<>>, T_12rue, T_Lun>>),           \* no header: 5 columns of data
   Join(<<TAB>>, <<T_Dupont, T_1887>>)}                                 \* no header: 2 columns of data

\* data lines of an input file
DataLines ==
  {Join(<<TAB>>, <<T_Dupont, T_1887, T_Prof, T_12rue, T_Lun>>),         \* 4 tabs
   Join(<<TAB>>, <<T_a, T_1887>>),                                      \* 1 tab
   T_Dupont,                                                            \* no tab
   T_blank,                                                             \* blank
   Join(<<TAB>>, <<T_Dupont, T_1887, T_Prof, T_12rue, T_Lun, T_2a4>>),  \* 5 tabs
   Join(<<TAB>>, <<T_Dupont, T_1885, T_Medecin12rue, T_2a4h>>),         \* 3 tabs
   T_NoTab,                                                             \* no tab, many words
   Join(<<TAB>>, <<T_Dupont, T_1887, T_Prof, T_q12rue, T_Lun>>)}        \* 4 tabs, a quoted word

\* a file's text as text.splitlines() gives it; the empty file has no line
FileTexts ==
  {<<>>} \cup
  {<<h>> \o body : h \in HeaderLines,
                   body \in UNION {[1..n -> DataLines] : n \in 0..MaxLines}}

\* paths are tuples of names
InDir == <<"in">>
TsvPath == <<"in", "x.tsv">>
OutputDirs == {<<"out">>, <<"in">>, <<>>}    \* beside the input, the input itself, its parent
AllPaths == {d \o <<"x.tsv">> : d \in OutputDirs}

\* ------------------------------------------------------------------------
\* State
\* ------------------------------------------------------------------------

VARIABLES
  \* repair_line, one call
  raw_line, headers, lpc, parts, nom, remaining, annee, horaires,
  notes_segments, adresse_segments, ret,
  year_idx, hours_idx,       \* positions deleted from remaining (0: none)
  \* main / repair_file / read_tsv, one run
  fs,                        \* the files: path -> None or Some(lines)
  dirs,                      \* the directories that exist
  input_dir, output_base,    \* args.input_dir, args.output_dir (resolved)
  tsv_paths,                 \* the files still to repair
  pc,
  data_lines, start_offset, pos, rows, issues,
  result,                    \* what repair_file returned last
  before,                    \* rows and issues when the last loop iteration began
  orig                       \* the files as the run found them

line_vars == <<raw_line, lpc, parts, nom, remaining, annee, horaires,
               notes_segments, adresse_segments, ret, year_idx, hours_idx>>
file_vars == <<fs, dirs, input_dir, output_base, tsv_paths, pc, data_lines,
               start_offset, pos, rows, issues, result, before, orig>>

\* the output extractors, one run
VARIABLES
  script,                    \* which extractor runs
  in_exists,                 \* whether the vendor output file exists
  jsonl,                     \* the lines of the vendor output file
  line_no,                   \* the line the loop is at
  written, missing, errors,  \* the counters (errors: len(errors) where it is a list)
  out_files,                 \* the files written: name -> content
  writes,                    \* the line numbers that wrote a file, in order
  xpc

extract_vars == <<script, in_exists, jsonl, line_no, written, missing, errors, out_files, writes, xpc>>

ExtractIdle ==
  /\ script = "none" /\ in_exists = FALSE /\ jsonl = <<>> /\ line_no = 0 /\ written = 0 /\ missing = 0
  /\ errors = 0 /\ out_files = <<>> /\ writes = <<>> /\ xpc = "idle"

\* the image uploaders, one run
VARIABLES
  uploader,                  \* which uploader runs
  tsv_rows,                  \* the rows of the benchmark TSV: [year, page], None for a missing cell
  resume, limit, workers,    \* --resume, --limit (0: not given), --workers
  mapping_file,              \* the lines of --out as the run found it
  existing,                  \* load_existing(args.out): the custom_ids recorded
  row_no,                    \* the row the loop is at
  uploaded, skipped, failed, processed,
  missing_images, futures,
  task,                      \* the state of each submitted upload
  cur,                       \* the future the as_completed loop is handling (0: none)
  lock,                      \* who holds the lock
  appended,                  \* what the run has written to f_out, write by write
  failure_log,               \* the custom_ids of the "upload failed for ..." lines printed
  summary,                   \* the counts of the final summary, once printed
  upc

upload_vars == <<uploader, tsv_rows, resume, limit, workers, mapping_file, existing, row_no,
                 uploaded, skipped, failed, processed, missing_images, futures, task, cur,
                 lock, appended, failure_log, summary, upc>>

\* the command line and the files a run of an uploader finds
upload_args == <<uploader, tsv_rows, resume, limit, workers, mapping_file>>

UploadIdle ==
  /\ uploader = "none" /\ tsv_rows = <<>> /\ resume = FALSE /\ limit = 0 /\ workers = 0
  /\ mapping_file = <<>> /\ existing = {} /\ row_no = 0 /\ uploaded = 0 /\ skipped = 0
  /\ failed = 0 /\ processed = 0 /\ missing_images = <<>> /\ futures = <<>>
  /\ task = <<>> /\ cur = 0 /\ lock = "free" /\ appended = <<>>
  /\ failure_log = <<>> /\ summary = <<>> /\ upc = "idle"

\* the Gemini status checkers, one run
VARIABLES
  checker,                   \* which status checker runs
  wait,                      \* --wait / --poll
  naming,                    \* how the vendor names the states of a job
  jobs,                      \* the vendor's side: the status of the job of each target
  tgt,                       \* the target the checker is at
  observed,                  \* batch.state.name of the last fetch
  polls,                     \* the sleeps made for the target, counted modulo MaxPolls + 1
  reported,                  \* the state printed for each target reported so far
  spc

status_vars == <<checker, wait, naming, jobs, tgt, observed, polls, reported, spc>>

StatusIdle ==
  /\ checker = "none" /\ wait = FALSE /\ naming = "none" /\ jobs = <<>> /\ tgt = 0
  /\ observed = <<>> /\ polls = 0 /\ reported = <<>> /\ spc = "idle"

\* the batch runners, one run
VARIABLES
  runner,                    \* which runner runs
  skip_validate,             \* --skip-validate
  chunk_files,               \* the request files of the run, in the order submitted
  file_no,                   \* the file the run is at
  calls,                     \* the vendor calls made so far
  sidecars,                  \* the sidecar files written so far
  rpc

run_vars == <<runner, skip_validate, chunk_files, file_no, calls, sidecars, rpc>>

RunIdle ==
  /\ runner = "none" /\ skip_validate = FALSE /\ chunk_files = <<>> /\ file_no = 0
  /\ calls = <<>> /\ sidecars = {} /\ rpc = "idle"

\* repair_line called again and again by one process
VARIABLES
  history                    \* the calls made so far: line, headers and what was returned

call_vars == <<history>>

CallsIdle == history = <<>>

\* build-gemini-image-text-batch-file.py
VARIABLES
  build_rows,                \* the rows of the benchmark TSV
  chunk_max_arg,             \* --chunk-max-bytes
  build_row,                 \* the row the loop is at
  buffer,                    \* the request lines not yet in a chunk file
  chunk_index, written_total, chunks_written, current_bytes,
  build_missing, build_processed,    \* missing_images, processed
  chunk_dir,                 \* the chunk files written: number and lines
  report,                    \* the final print: written_total and chunks_written
  bpc

build_vars == <<build_rows, chunk_max_arg, build_row, buffer, chunk_index, written_total,
                chunks_written, current_bytes, build_missing, build_processed, chunk_dir,
                report, bpc>>

BuildIdle ==
  /\ build_rows = <<>> /\ chunk_max_arg = 0 /\ build_row = 0 /\ buffer = <<>>
  /\ chunk_index = 0 /\ written_total = 0 /\ chunks_written = 0 /\ current_bytes = 0
  /\ build_missing = <<>> /\ build_processed = 0 /\ chunk_dir = {} /\ report = <<>>
  /\ bpc = "idle"

\* llm_correction.py: LLMCorrector.process_single_page
VARIABLES
  max_retries,               \* the argument
  attempt,                   \* the loop variable
  model_log,                 \* what each call of the model did: an output, or "raised"
  sleeps,                    \* the arguments of time.sleep so far
  page_result,               \* the ProcessingResult returned, None before
  cpc

correct_vars == <<max_retries, attempt, model_log, sleeps, page_result, cpc>>

CorrectIdle ==
  /\ max_retries = 0 /\ attempt = 0 /\ model_log = <<>> /\ sleeps = <<>>
  /\ page_result = <<>> /\ cpc = "idle"

\* check_batch_status.py and check_gemini_image_batch_status.py
VARIABLES
  status_script,             \* "openai" or "gemini_image"
  batch_id_arg,              \* --batch-id / --batch-name, None when not given
  model_arg,                 \* --model, None when not given
  sidecar,                   \* the batch JSON of the model: "missing", or what it holds
  batch_id,                  \* the local batch_id / batch_name
  base_name,
  sidecar_read,              \* the batch JSON was opened
  batch,                     \* what the vendor returned, None before
  shown,                     \* the id printed under "Batch Status"
  saved,                     \* the output file downloaded: the batch and the file name
  kpc

check_vars == <<status_script, batch_id_arg, model_arg, sidecar, batch_id, base_name,
                sidecar_read, batch, shown, saved, kpc>>

CheckIdle ==
  /\ status_script = "none" /\ batch_id_arg = <<>> /\ model_arg = <<>>
  /\ sidecar = "missing" /\ batch_id = <<>> /\ base_name = <<>> /\ sidecar_read = FALSE
  /\ batch = <<>> /\ shown = <<>> /\ saved = <<>> /\ kpc = "idle"

\* the variables of the programs other than repair.py
other_vars == <<extract_vars, upload_vars, status_vars, run_vars, call_vars, build_vars, correct_vars, check_vars>>
OtherIdle == ExtractIdle /\ UploadIdle /\ StatusIdle /\ RunIdle /\ CallsIdle /\ BuildIdle /\ CorrectIdle /\ CheckIdle

vars == <<headers, line_vars, file_vars, other_vars>>

\* the variables an extractor leaves alone, and an uploader
not_extract == <<headers, line_vars, file_vars, upload_vars, status_vars, run_vars, call_vars, build_vars, correct_vars, check_vars>>
not_upload == <<headers, line_vars, file_vars, extract_vars, status_vars, run_vars, call_vars, build_vars, correct_vars, check_vars>>
not_status == <<headers, line_vars, file_vars, extract_vars, upload_vars, run_vars, call_vars, build_vars, correct_vars, check_vars>>
not_run == <<headers, line_vars, file_vars, extract_vars, upload_vars, status_vars, call_vars, build_vars, correct_vars, check_vars>>
not_calls == <<headers, line_vars, file_vars, extract_vars, upload_vars, status_vars, run_vars, build_vars, correct_vars, check_vars>>
not_build == <<headers, line_vars, file_vars, extract_vars, upload_vars, status_vars, run_vars, call_vars, correct_vars, check_vars>>
not_correct == <<headers, line_vars, file_vars, extract_vars, upload_vars, status_vars, run_vars, call_vars, build_vars, check_vars>>
not_check == <<headers, line_vars, file_vars, extract_vars, upload_vars, status_vars, run_vars, call_vars, build_vars, correct_vars>>

\* values of the variables a specification does not use
LineIdle ==
  /\ raw_line = <<>> /\ lpc = "idle" /\ parts = <<>> /\ nom = <<>>
  /\ remaining = <<>> /\ annee = <<>> /\ horaires = <<>>
  /\ notes_segments = <<>> /\ adresse_segments = <<>> /\ ret = None
  /\ year_idx = 0 /\ hours_idx = 0

FileIdle ==
  /\ fs = [p \in AllPaths |-> None] /\ dirs = {} /\ input_dir = <<>>
  /\ output_base = <<>> /\ tsv_paths = <<>> /\ pc = "idle" /\ data_lines = <<>>
  /\ start_offset = 0 /\ pos = 0 /\ rows = <<>> /\ issues = <<>>
  /\ result = None /\ before = None /\ orig = [p \in AllPaths |-> None]

\* ------------------------------------------------------------------------
\* repair_line, statement by statement
\* ------------------------------------------------------------------------

\* repair.py not running
RepairIdle == headers = <<>> /\ LineIdle /\ FileIdle

InitLine ==
  /\ raw_line \in Lines
  /\ headers \in HeaderLists
  /\ lpc = "start"
  /\ parts = <<>> /\ nom = <<>> /\ remaining = <<>> /\ annee = <<>> /\ horaires = <<>>
  /\ notes_segments = <<>> /\ adresse_segments = <<>> /\ ret = None
  /\ year_idx = 0 /\ hours_idx = 0
  /\ FileIdle
  /\ OtherIdle

\* lines 135-143: the two early returns, then nom and remaining
RL_Split ==
  /\ lpc = "start"
  /\ IF headers = <<>>
       THEN /\ ret' = None /\ lpc' = "returned"
            /\ UNCHANGED <<parts, nom, remaining>>
       ELSE LET ps == Parts(raw_line) IN
            /\ parts' = ps
            /\ IF ps = <<>>
                 THEN ret' = None /\ lpc' = "returned" /\ UNCHANGED <<nom, remaining>>
                 ELSE /\ nom' = ps[1] /\ remaining' = Tail(ps)
                      /\ lpc' = "year" /\ UNCHANGED ret
  /\ UNCHANGED <<raw_line, headers, annee, horaires, notes_segments, adresse_segments,
                 year_idx, hours_idx, file_vars, other_vars>>

\* lines 145-151
RL_Year ==
  /\ lpc = "year"
  /\ LET y == ExtractYear(remaining) IN
     /\ annee' = y.annee /\ remaining' = y.remaining /\ year_idx' = y.idx
  /\ lpc' = "hours"
  /\ UNCHANGED <<raw_line, headers, parts, nom, horaires, notes_segments,
                 adresse_segments, ret, hours_idx, file_vars, other_vars>>

\* lines 153-159
RL_Hours ==
  /\ lpc = "hours"
  /\ LET h == ExtractHours(remaining) IN
     /\ horaires' = h.horaires /\ remaining' = h.remaining /\ hours_idx' = h.idx
  /\ lpc' = "classify"
  /\ UNCHANGED <<raw_line, headers, parts, nom, annee, notes_segments,
                 adresse_segments, ret, year_idx, file_vars, other_vars>>

\* lines 161-175
RL_Classify ==
  /\ lpc = "classify"
  /\ LET c == Classify(remaining) IN
     /\ notes_segments' = c.notes /\ adresse_segments' = c.adresse
  /\ lpc' = "assemble"
  /\ UNCHANGED <<raw_line, headers, parts, nom, remaining, annee, horaires, ret,
                 year_idx, hours_idx, file_vars, other_vars>>

\* lines 177-186
RL_Return ==
  /\ lpc = "assemble"
  /\ ret' = Some(Assemble(nom, annee, notes_segments, adresse_segments, horaires, headers))
  /\ lpc' = "returned"
  /\ UNCHANGED <<raw_line, headers, parts, nom, remaining, annee, horaires,
                 notes_segments, adresse_segments, year_idx, hours_idx, file_vars, other_vars>>

NextLine == RL_Split \/ RL_Year \/ RL_Hours \/ RL_Classify \/ RL_Return

SpecLine == InitLine /\ [][NextLine]_vars

\* ------------------------------------------------------------------------
\* main -> repair_file -> read_tsv, with the default --pattern, without
\* --recursive and --limit
\* ------------------------------------------------------------------------

NoFiles == [p \in AllPaths |-> None]

Init ==
  /\ \/ /\ input_dir = <<"absent">> /\ output_base = <<"out">> /\ fs = NoFiles
     \/ /\ input_dir = InDir /\ output_base \in OutputDirs
        /\ \/ fs = NoFiles
           \/ \E text \in FileTexts : fs = [NoFiles EXCEPT ![TsvPath] = Some(text)]
  /\ dirs = {<<>>, InDir}
  /\ orig = fs
  /\ tsv_paths = <<>> /\ pc = "main"
  /\ headers = <<>> /\ data_lines = <<>> /\ start_offset = 0 /\ pos = 0
  /\ rows = <<>> /\ issues = <<>> /\ result = None /\ before = None
  /\ LineIdle
  /\ OtherIdle

Parent(p) == SubSeq(p, 1, Len(p) - 1)

RECURSIVE SetToSeq(_)
SetToSeq(ps) ==
  IF ps = {} THEN <<>> ELSE LET p == CHOOSE q \in ps : TRUE IN <<p>> \o SetToSeq(ps \ {p})

\* lines 214-226: the input directory must exist; the files matching the
\* pattern directly in it are listed; none found ends the run
Main ==
  /\ pc = "main"
  /\ IF input_dir \notin dirs
       THEN pc' = "raised" /\ UNCHANGED tsv_paths
       ELSE LET found == {p \in AllPaths : fs[p] # None /\ Parent(p) = input_dir} IN
            /\ tsv_paths' = SetToSeq(found)
            /\ pc' = IF found = {} THEN "done" ELSE "read_tsv"
  /\ UNCHANGED <<headers, line_vars, other_vars, fs, dirs, input_dir, output_base, data_lines,
                 start_offset, pos, rows, issues, result, before, orig>>

\* read_tsv lines 52-76: an empty file returns [], [], [] at once
ReadTsv ==
  /\ pc = "read_tsv"
  /\ LET lines == fs[tsv_paths[1]][1] IN
     IF lines = <<>>
       THEN /\ headers' = <<>> /\ data_lines' = <<>> /\ start_offset' = 0
            /\ pc' = "repair_file"
       ELSE LET h == ReadHeader(lines) IN
            /\ headers' = h.headers /\ data_lines' = h.data_lines
            /\ start_offset' = h.start_offset
            /\ pc' = "loop"
  /\ pos' = 1 /\ rows' = <<>> /\ issues' = <<>> /\ before' = None
  /\ UNCHANGED <<line_vars, other_vars, fs, dirs, input_dir, output_base, tsv_paths, result, orig>>

InLoop == pc = "loop" /\ pos <= Len(data_lines)
Snapshot == Some([rows |-> rows, issues |-> issues])

\* lines 79-80: a blank line is skipped
SkipBlank ==
  /\ InLoop
  /\ Strip(data_lines[pos]) = <<>>
  /\ pos' = pos + 1 /\ before' = Snapshot
  /\ UNCHANGED <<headers, line_vars, other_vars, fs, dirs, input_dir, output_base, tsv_paths, pc,
                 data_lines, start_offset, rows, issues, result, orig>>

\* lines 82-88: the expected number of tabs
AppendRow ==
  /\ InLoop
  /\ LET line == data_lines[pos]
         values == Split(line, TAB)
     IN /\ Strip(line) # <<>>
        /\ Count(line, TAB) = ExpectedTabs(headers)
        /\ Len(values) = Len(headers)
        /\ rows' = Append(rows, DictZip(headers, values))
  /\ pos' = pos + 1 /\ before' = Snapshot
  /\ UNCHANGED <<headers, line_vars, other_vars, fs, dirs, input_dir, output_base, tsv_paths, pc,
                 data_lines, start_offset, issues, result, orig>>

\* line 85: the assertion fails and the run ends with AssertionError
AssertionFails ==
  /\ InLoop
  /\ LET line == data_lines[pos] IN
        /\ Strip(line) # <<>>
        /\ Count(line, TAB) = ExpectedTabs(headers)
        /\ Len(Split(line, TAB)) # Len(headers)
  /\ pc' = "raised" /\ before' = Snapshot
  /\ UNCHANGED <<headers, line_vars, other_vars, fs, dirs, input_dir, output_base, tsv_paths,
                 data_lines, start_offset, pos, rows, issues, result, orig>>

\* RepairRow with issues.append(...) moved under "if success:"
RepairRow_ReportOnSuccess ==
  /\ InLoop
  /\ LET line == data_lines[pos]
         tab_count == Count(line, TAB)
         repaired == repair_line(line, headers)
         success == repaired # None
     IN /\ Strip(line) # <<>>
        /\ tab_count # ExpectedTabs(headers)
        /\ issues' = IF success
                       THEN Append(issues, <<start_offset + pos - 1, tab_count, line, success>>)
                       ELSE issues
        /\ rows' = IF success THEN Append(rows, repaired[1]) ELSE rows
  /\ pos' = pos + 1 /\ before' = Snapshot
  /\ UNCHANGED <<headers, line_vars, other_vars, fs, dirs, input_dir, output_base, tsv_paths, pc,
                 data_lines, start_offset, result, orig>>

\* lines 89-94: another number of tabs
RepairRow ==
  /\ InLoop
  /\ LET line == data_lines[pos]
         tab_count == Count(line, TAB)
         repaired == repair_line(line, headers)
         success == repaired # None
     IN /\ Strip(line) # <<>>
        /\ tab_count # ExpectedTabs(headers)
        /\ issues' = Append(issues, <<start_offset + pos - 1, tab_count, line, success>>)
        /\ rows' = IF success THEN Append(rows, repaired[1]) ELSE rows
  /\ pos' = pos + 1 /\ before' = Snapshot
  /\ UNCHANGED <<headers, line_vars, other_vars, fs, dirs, input_dir, output_base, tsv_paths, pc,
                 data_lines, start_offset, result, orig>>

\* line 96: return headers, rows, issues
ReadTsvReturn ==
  /\ pc = "loop" /\ pos > Len(data_lines)
  /\ pc' = "repair_file"
  /\ UNCHANGED <<headers, line_vars, other_vars, fs, dirs, input_dir, output_base, tsv_paths,
                 data_lines, start_offset, pos, rows, issues, result, before, orig>>

\* the directories mkdir(parents=True) creates for d
Ancestors(d) == {SubSeq(d, 1, n) : n \in 0..Len(d)}

\* repair_file lines 191-210, then main goes on to the next file or ends
RepairFile ==
  /\ pc = "repair_file"
  /\ LET tsv_path == tsv_paths[1]
         rel_path == SubSeq(tsv_path, Len(input_dir) + 1, Len(tsv_path))
         output_path == output_base \o rel_path
         failed_count == Cardinality({n \in 1..Len(issues) : ~issues[n][4]})
     IN /\ IF headers # <<>>
             THEN /\ dirs' = dirs \cup Ancestors(Parent(output_path))
                  /\ fs' = [fs EXCEPT ![output_path] = Some(OutputLines(headers, rows))]
             ELSE UNCHANGED <<dirs, fs>>
        /\ result' = Some([failed |-> failed_count,
                           output |-> IF headers # <<>> THEN Some(output_path) ELSE None,
                           total |-> Len(rows),
                           issues |-> Len(issues),
                           headers |-> headers,
                           tab_issues |-> issues])
  /\ tsv_paths' = Tail(tsv_paths)
  /\ pc' = IF Tail(tsv_paths) = <<>> THEN "done" ELSE "read_tsv"
  /\ UNCHANGED <<headers, line_vars, other_vars, input_dir, output_base, data_lines, start_offset,
                 pos, rows, issues, before, orig>>

Next ==
  \/ Main \/ ReadTsv \/ SkipBlank \/ AppendRow \/ AssertionFails \/ RepairRow
  \/ ReadTsvReturn \/ RepairFile

Spec == Init /\ [][Next]_vars

\* ========================================================================
\* Properties
\* ========================================================================

\* a line has a character that is not whitespace (a tab is whitespace)
NonBlank(line) == \E n \in 1..Len(line) : line[n] \notin Whitespace

\* the line the last loop iteration of read_tsv handled
LastLine == data_lines[pos - 1]
Iterated == pc \in {"loop", "repair_file", "done"} /\ before # None /\ pos >= 2

\* C1: for every non-blank data line whose tab count equals len(headers) - 1,
\* read_tsv appends exactly one row whose values, in header order, are the
\* line's tab-separated substrings unchanged, and adds no issue for it.
C1_WellFormedLineKept ==
  (Iterated /\ NonBlank(LastLine) /\ Count(LastLine, TAB) = Len(headers) - 1)
    => /\ Len(rows) = Len(before[1].rows) + 1
       /\ SubSeq(rows, 1, Len(rows) - 1) = before[1].rows
       /\ RowValues(rows[Len(rows)], headers) = Split(LastLine, TAB)
       /\ issues = before[1].issues

\* C2: the record repair_line returns has exactly as many fields as the
\* header list, whatever the header list.
C2_FieldCountEqualsHeaderCount ==
  (lpc = "returned" /\ ret # None) => Cardinality(DOMAIN ret[1]) = Len(headers)

\* C3 as stated: every call of repair_line returns a record, never "no
\* record".
C3_AlwaysARecord == lpc = "returned" => ret # None

\* C3 as amended: a call of repair_line that has returned gave a record
\* exactly when the header list is not empty and the line has a
\* non-whitespace character, and None (no record) otherwise.
C3_RecordUnlessNoHeadersOrBlank ==
  lpc = "returned" => (ret # None <=> (headers # <<>> /\ NonBlank(raw_line)))

C3_Witness == lpc = "returned" /\ ret = None /\ NonBlank(raw_line)

\* C4: repair_file leaves every input file as the run found it, also when
\* the output directory is the input directory or contains it.
C4_OriginalsNeverMutated == \A p \in AllPaths : orig[p] # None => fs[p] = orig[p]

\* the positions in data_lines, among the first k, of the non-blank lines
\* whose tab count is not the expected one
RECURSIVE MalformedUpTo(_)
MalformedUpTo(k) ==
  IF k <= 0 THEN <<>>
  ELSE MalformedUpTo(k - 1) \o
       (IF NonBlank(data_lines[k]) /\ Count(data_lines[k], TAB) # ExpectedTabs(headers)
          THEN <<k>> ELSE <<>>)

\* the lines of the file being repaired, as the run found it
FileLines == orig[TsvPath][1]

\* every malformed line handled so far has exactly one issue, in file order,
\* with its line number in the file, its tab count and its text
C5_Reported ==
  pc \in {"loop", "repair_file", "done"} =>
    LET bad == MalformedUpTo(pos - 1) IN
    /\ Len(issues) = Len(bad)
    /\ \A n \in 1..Len(issues) :
         /\ issues[n][3] = data_lines[bad[n]]
         /\ issues[n][2] = Count(issues[n][3], TAB)
         /\ issues[n][1] \in 1..Len(FileLines)
         /\ FileLines[issues[n][1]] = issues[n][3]
         /\ \A m \in 1..(n - 1) : issues[m][1] < issues[n][1]
    /\ result # None => result[1].tab_issues = issues /\ result[1].issues = Len(issues)

\* C5 as stated: every malformed line is reported, and its repaired flag is
\* true whenever repair_line was invoked on it.
C5_ReportedAndFlaggedRepaired ==
  /\ C5_Reported
  /\ \A n \in 1..Len(issues) : issues[n][4]

\* C5 as amended: every malformed line is reported, and its repaired flag is
\* true exactly when repair_line returned a record for it, that is when the
\* header list is not empty; an unrepaired line adds no row.
C5_ReportedAndFlaggedByOutcome ==
  /\ C5_Reported
  /\ \A n \in 1..Len(issues) : issues[n][4] <=> headers # <<>>
  /\ (pc \in {"loop", "repair_file", "done"} /\ headers = <<>> /\ Len(issues) > 0)
       => /\ result # None => result[1].failed = Len(issues)
          /\ Len(rows) + Len(issues) <= pos - 1

C5_Witness ==
  /\ pc = "done" /\ Len(issues) = 2
  /\ issues[1][4] /\ issues[2][4] /\ issues[1][1] < issues[2][1]

\* ------------------------------------------------------------------------
\* repair_line: what each token of the line becomes
\* ------------------------------------------------------------------------

\* a call that went past the early returns
Tokenised == lpc \in {"year", "hours", "classify", "assemble", "returned"} /\ parts # <<>>

\* the tokens after the name
Pool == Tail(parts)

\* the pool once the year token is deleted
PoolAfterYear == RemoveAt(Pool, year_idx)

\* four consecutive digits start at position i of token t
FourAt(t, i) == i + 3 <= Len(t) /\ \A j \in 0..3 : t[i + j] \in Digits

HasFour(t) == \E i \in 1..Len(t) : FourAt(t, i)

LeftFour(t) ==
  LET i == CHOOSE i \in 1..Len(t) : FourAt(t, i) /\ \A j \in 1..(i - 1) : ~FourAt(t, j)
  IN SubSeq(t, i, i + 3)

\* the elements of a sequence
Elems(xs) == {xs[n] : n \in 1..Len(xs)}

\* what the classification loop can append for token t
Derived(t) ==
  {t} \cup (IF Count(t, ",") > 0
              THEN {Strip(Partition(t, ",")[1]), Strip(Partition(t, ",")[2])}
              ELSE {})

HoursToken(t) == t = T_2a4 \/ HorairesSearch(t)

\* C7: a token matching the hours pattern ("2 a 4" with a grave accent, a
\* day abbreviation, midi, soir) leaves the pool and becomes the hours field
\* verbatim; of several such tokens the one nearest the end is taken.
C7_HoursExtraction ==
  (Tokenised /\ lpc \in {"classify", "assemble", "returned"}) =>
    LET hits == {n \in 1..Len(PoolAfterYear) : HoursToken(PoolAfterYear[n])} IN
    IF hits = {}
      THEN hours_idx = 0 /\ horaires = <<>> /\ remaining = PoolAfterYear
      ELSE /\ hours_idx \in hits /\ \A m \in hits : hours_idx >= m
           /\ horaires = PoolAfterYear[hours_idx]
           /\ remaining = RemoveAt(PoolAfterYear, hours_idx)

\* the two halves of "Anc. Int. Hop., 12 rue de la Paix" (o with circumflex)
N_AncIntHop == <<"A","n","c","."," ","I","n","t","."," ","H","o_circ","p",".">>
A_12rueDeLaPaix ==
  <<"1","2"," ","r","u","e"," ","d","e"," ","l","a"," ","P","a","i","x">>

\* C8: a pool token matching an abbreviation pattern is split at its first
\* comma between notes and address, or goes whole to notes without a comma;
\* a token matching no pattern goes whole to address; the token
\* "Anc. Int. Hop., 12 rue de la Paix" (o with circumflex) gives the note
\* "Anc. Int. Hop." and the address "12 rue de la Paix".
C8_NotesAddressSplit ==
  (Tokenised /\ lpc \in {"assemble", "returned"}) =>
    /\ \A t \in Elems(remaining) :
         IF Matched(t)
           THEN IF Count(t, ",") > 0
                  THEN /\ Strip(Partition(t, ",")[1]) \in Elems(notes_segments)
                       /\ Strip(Partition(t, ",")[2]) # <<>>
                            => Strip(Partition(t, ",")[2]) \in Elems(adresse_segments)
                  ELSE t \in Elems(notes_segments)
           ELSE t = T_AncIntHop \/ t \in Elems(adresse_segments)
    /\ T_AncIntHop \in Elems(remaining)
         => /\ N_AncIntHop \in Elems(notes_segments)
            /\ A_12rueDeLaPaix \in Elems(adresse_segments)

\* C9: the year is extracted before the hours and both tokens are deleted
\* before the classification loop runs; every token of the line is the
\* name, the year token, the hours token or one token of the classified
\* pool, and never two of them.
C9_NoTokenTwice ==
  Tokenised =>
    /\ nom = parts[1]
    /\ lpc \in {"year", "hours"} => hours_idx = 0 /\ horaires = <<>>
    /\ lpc = "year" => year_idx = 0 /\ annee = <<>> /\ remaining = Pool
    /\ lpc \in {"year", "hours", "classify"}
         => notes_segments = <<>> /\ adresse_segments = <<>>
    /\ lpc = "hours" => remaining = PoolAfterYear
    /\ lpc \in {"classify", "assemble", "returned"} =>
         /\ year_idx \in 0..Len(Pool)
         /\ hours_idx \in 0..Len(PoolAfterYear)
         /\ hours_idx # 0 => horaires = PoolAfterYear[hours_idx]
         /\ remaining = RemoveAt(PoolAfterYear, hours_idx)
         /\ Len(parts) = 1 + (IF year_idx # 0 THEN 1 ELSE 0)
                            + (IF hours_idx # 0 THEN 1 ELSE 0) + Len(remaining)
    /\ lpc \in {"assemble", "returned"} =>
         /\ Len(notes_segments) + Len(adresse_segments) >= Len(remaining)
         /\ Len(notes_segments) + Len(adresse_segments) <= Len(remaining) + Len(remaining)
         /\ Elems(notes_segments) \cup Elems(adresse_segments)
              \subseteq UNION {Derived(t) : t \in Elems(remaining)}

C9_Witness ==
  /\ lpc = "returned" /\ ret # None
  /\ year_idx # 0 /\ hours_idx # 0
  /\ HorairesSearch(Pool[year_idx]) /\ HasFour(Pool[year_idx])
  /\ horaires = T_Lun /\ remaining = <<>>

\* the numbers of the patterns that find something in t
Matching(t) == {n \in 1..Len(NOTES_REGEXES) : NotesSearch(n, t)}

\* NOTES_REGEXES listed in another order
Reversed == [n \in 1..Len(NOTES_REGEXES) |-> Len(NOTES_REGEXES) + 1 - n]
Orders == {Declared, Reversed}

\* the notes and address fragments of t when the scan over the list gives hit
SplitBy(hit, t) ==
  IF hit
    THEN IF Count(t, ",") > 0
           THEN [notes |-> <<Strip(Partition(t, ",")[1])>>,
                 adresse |-> IF Strip(Partition(t, ",")[2]) # <<>>
                               THEN <<Strip(Partition(t, ",")[2])>> ELSE <<>>]
           ELSE [notes |-> <<t>>, adresse |-> <<>>]
    ELSE [notes |-> <<>>, adresse |-> <<t>>]

\* C10 as stated: the declared order of the patterns is significant; a
\* token that several patterns match is resolved by the one declared first,
\* so listing the patterns in another order changes what becomes of it.
C10_DeclaredOrderSignificant ==
  (Tokenised /\ lpc \in {"assemble", "returned"}) =>
    \A t \in Elems(remaining) :
      Cardinality(Matching(t)) >= 2 =>
        \E order \in Orders :
          /\ order[FirstMatch(order, t)] # Declared[FirstMatch(Declared, t)]
          /\ SplitBy(FirstMatch(order, t) # 0, t) # SplitBy(FirstMatch(Declared, t) # 0, t)

\* C10 as amended: the scan stops at the first pattern of the list that
\* matches, but only whether some pattern matches decides what becomes of
\* the token; the outcome is the same in whatever order the list holds the
\* patterns.
C10_OrderImmaterial ==
  (Tokenised /\ lpc = "assemble") =>
    \A t \in Elems(remaining) :
      LET matching == Matching(t)
          hit == matching # {}
          first == FirstMatch(Declared, t)
          split == SplitBy(hit, t)
      IN /\ (first # 0) = hit
         /\ (FirstMatch(Reversed, t) # 0) = hit
         /\ hit => first \in matching /\ \A n \in matching : first <= n
         /\ Elems(split.notes) \subseteq Elems(notes_segments)
         /\ Elems(split.adresse) \subseteq Elems(adresse_segments)
         /\ ~hit => t \notin Elems(notes_segments)

C10_Witness ==
  /\ lpc = "assemble" /\ remaining = <<T_MHop>>
  /\ Matching(T_MHop) = {2, 11}
  /\ notes_segments = <<<<"M","."," ","H","o","p",".">>>>
  /\ adresse_segments = <<<<"3"," ","r","u","e">>>>

\* ------------------------------------------------------------------------
\* read_tsv on the two end-to-end lines
\* ------------------------------------------------------------------------

\* the header list read_tsv takes from the usual header line
FileHeaders == <<H_nom, F_annee, H_notes, H_adresse, H_horaires>>

L_FourColumns == Join(<<TAB>>, <<T_Dupont, T_1885, T_Medecin12rue, T_2a4h>>)

\* the iteration just finished handled this line under the five-name header
Handled(line) == Iterated /\ headers = FileHeaders /\ LastLine = line

\* C11 as stated: under the five-name header the line
\* "Dupont<TAB>1885<TAB>Medecin, 12 rue de la Paix<TAB>2 a 4h" is passed
\* through unchanged as a record, with no issue and no call of repair_line.
C11_LinePassedThrough ==
  Handled(L_FourColumns) =>
    /\ issues = before[1].issues
    /\ Len(rows) = Len(before[1].rows) + 1
    /\ RowValues(rows[Len(rows)], headers) = Split(L_FourColumns, TAB)

\* C11 as amended: that line has 3 tabs where the five-name header expects
\* 4, so it is not passed through: one issue is reported for it (3 tabs,
\* flagged repaired) and the row appended is the record repair_line builds,
\* with name "Dupont" and year "1885"; a line is passed through exactly when
\* its tab count is the expected one.
C11_LineRepairedNotPassedThrough ==
  /\ Handled(L_FourColumns) =>
       /\ Count(L_FourColumns, TAB) = 3 /\ Len(headers) - 1 = 4
       /\ Len(issues) = Len(before[1].issues) + 1
       /\ issues[Len(issues)][2] = 3
       /\ issues[Len(issues)][3] = L_FourColumns
       /\ issues[Len(issues)][4]
       /\ Len(rows) = Len(before[1].rows) + 1
       /\ rows[Len(rows)][H_nom] = T_Dupont
       /\ rows[Len(rows)][F_annee] = T_1885
       /\ RowValues(rows[Len(rows)], headers) # Split(L_FourColumns, TAB)
  /\ (Iterated /\ headers = FileHeaders /\ NonBlank(LastLine)) =>
       (issues = before[1].issues <=> Len(Split(LastLine, TAB)) = Len(headers))

C11_Witness ==
  /\ Handled(L_FourColumns) /\ pc = "done"
  /\ Len(issues) = 1 /\ Len(rows) = 1
  /\ rows[1][H_adresse] = T_Medecin12rue \o <<",", " ">> \o T_2a4h

\* C12: under the five-name header the line
\* "Dupont 1885 Medecin 12 rue de la Paix 2 a 4h" (no tab) is repaired into
\* a five-field record whose year is "1885" and whose hours are not empty.
C12_NoTabLineRepaired ==
  Handled(T_NoTab) =>
    /\ Len(rows) = Len(before[1].rows) + 1
    /\ Cardinality(DOMAIN rows[Len(rows)]) = 5
    /\ rows[Len(rows)][F_annee] = T_1885
    /\ rows[Len(rows)][H_horaires] # <<>>

\* ------------------------------------------------------------------------
\* The output extractors
\*   "batch"             src/batch/extract_batch_output.py
\*   "gemini"            src/batch-gemini/extract_gemini_batch_output.py
\*   "gemini_image"      src/batch-gemini-image/extract_gemini_image_batch_output.py
\*   "gemini_image_text" src/batch-gemini-image-text-production/
\*                           extract_gemini_image_text_batch_output.py
\*   "openai_image"      src/batch-openai-image/extract_openai_image_batch_output.py
\* A JSON value is a record with its Python type in t; a str is a sequence
\* of characters, a dict a function from field names.
\* ------------------------------------------------------------------------

JNull == [t |-> "null"]
JStr(text) == [t |-> "str", v |-> text]
JNum(n) == [t |-> "num", v |-> n]
JList(xs) == [t |-> "list", v |-> xs]
JObj(f) == [t |-> "dict", v |-> f]

IsDict(x) == x.t = "dict"       \* isinstance(x, dict)
IsList(x) == x.t = "list"
IsStr(x) == x.t = "str"

\* d.get(k) for a dict d
Get(d, k) == IF k \in DOMAIN d.v THEN d.v[k] ELSE JNull

\* x == "literal"
IsText(x, text) == IsStr(x) /\ x.v = text

\* bool(x)
Truthy(x) ==
  CASE x.t = "null" -> FALSE
    [] x.t = "num" -> x.v # 0
    [] x.t = "str" -> x.v # <<>>
    [] x.t = "list" -> x.v # <<>>
    [] x.t = "dict" -> DOMAIN x.v # {}

\* text.rstrip("\n")
RECURSIVE RStripNL(_)
RStripNL(text) ==
  IF text # <<>> /\ text[Len(text)] = "\n" THEN RStripNL(SubSeq(text, 1, Len(text) - 1))
  ELSE text

\* text.strip(): the whitespace of str.strip() includes the newline
RECURSIVE StripText(_)
StripText(text) ==
  IF text # <<>> /\ text[1] \in Whitespace \cup {"\n"} THEN StripText(Tail(text))
  ELSE IF text # <<>> /\ text[Len(text)] \in Whitespace \cup {"\n"}
    THEN StripText(SubSeq(text, 1, Len(text) - 1))
  ELSE text

\* what extract_text gives: an exception, None, or a str
Raises == [o |-> "raise"]
NoText == [o |-> "none"]
Text(text) == [o |-> "text", text |-> text]

S_message == <<"m","e","s","s","a","g","e">>
S_output_text == <<"o","u","t","p","u","t","_","t","e","x","t">>

\* next((x for x in xs if pred(x)), None) where pred calls x.get: the
\* position of the first hit, 0 for None, -1 when an x.get raises first
RECURSIVE FirstMessage(_, _)
FirstMessage(output, i) ==
  IF i > Len(output) THEN 0
  ELSE IF ~IsDict(output[i]) THEN -1
  ELSE IF IsText(Get(output[i], "type"), S_message) THEN i
  ELSE FirstMessage(output, i + 1)

RECURSIVE FirstOutputText(_, _)
FirstOutputText(content_list, i) ==
  IF i > Len(content_list) THEN 0
  ELSE IF ~IsDict(content_list[i]) THEN -1
  ELSE IF IsText(Get(content_list[i], "type"), S_output_text)
          /\ IsStr(Get(content_list[i], "text")) THEN i
  ELSE FirstOutputText(content_list, i + 1)

\* batch/extract_batch_output.py, extract_text(obj, line_no, errors)
extract_text_batch(obj) ==
  IF ~IsDict(obj) THEN Raises
  ELSE LET response == Get(obj, "response") IN
  IF ~IsDict(response) THEN NoText
  ELSE IF ~(Get(response, "status_code").t = "num" /\ Get(response, "status_code").v = 200)
    THEN NoText
  ELSE LET body == Get(response, "body") IN
  IF ~IsDict(body) THEN NoText
  ELSE LET output == Get(body, "output") IN
  IF ~IsList(output) THEN NoText
  ELSE LET m == FirstMessage(output.v, 1) IN
  IF m = -1 THEN Raises
  ELSE IF m = 0 \/ ~Truthy(output.v[m]) THEN NoText
  ELSE LET content == Get(output.v[m], "content") IN
  IF Truthy(content) /\ ~IsList(content) THEN Raises
  ELSE LET content_list == IF Truthy(content) THEN content.v ELSE <<>>
           c == FirstOutputText(content_list, 1)
       IN IF c = -1 THEN Raises
          ELSE IF c = 0 THEN NoText
          ELSE Text(RStripNL(Get(content_list[c], "text").v))

\* "\n".join(t.rstrip("\n") for t in texts)
RECURSIVE JoinTexts(_)
JoinTexts(texts) ==
  IF texts = <<>> THEN <<>>
  ELSE IF Len(texts) = 1 THEN RStripNL(texts[1])
  ELSE RStripNL(texts[1]) \o <<"\n">> \o JoinTexts(Tail(texts))

\* [p.get("text") for p in part_list if isinstance(p, dict) and isinstance(p.get("text"), str)]
RECURSIVE TextsOf(_)
TextsOf(part_list) ==
  IF part_list = <<>> THEN <<>>
  ELSE (IF IsDict(part_list[1]) /\ IsStr(Get(part_list[1], "text"))
          THEN <<Get(part_list[1], "text").v>> ELSE <<>>) \o TextsOf(Tail(part_list))

\* batch-gemini/extract_gemini_batch_output.py, extract_text(obj, line_no, errors)
extract_text_gemini(obj) ==
  IF ~IsDict(obj) THEN Raises
  ELSE LET response == Get(obj, "response") IN
  IF ~IsDict(response) THEN NoText
  ELSE LET candidates == Get(response, "candidates") IN
  IF ~IsList(candidates) \/ ~Truthy(candidates) THEN NoText
  ELSE LET content == IF IsDict(candidates.v[1]) THEN Get(candidates.v[1], "content")
                      ELSE JNull IN
  IF ~IsDict(content) THEN NoText
  ELSE LET part_list == IF IsList(Get(content, "parts")) THEN Get(content, "parts") ELSE JNull IN
  IF ~Truthy(part_list) THEN NoText
  ELSE LET texts == TextsOf(part_list.v) IN
  IF texts = <<>> THEN NoText ELSE Text(JoinTexts(texts))

\* for part in part_list: ... if isinstance(text, str) and text.strip(): return text
RECURSIVE FirstNonBlankText(_)
FirstNonBlankText(part_list) ==
  IF part_list = <<>> THEN NoText
  ELSE IF IsDict(part_list[1]) /\ IsStr(Get(part_list[1], "text"))
          /\ StripText(Get(part_list[1], "text").v) # <<>>
    THEN Text(Get(part_list[1], "text").v)
  ELSE FirstNonBlankText(Tail(part_list))

\* extract_text(response) of the two Gemini image extractors
extract_text_gemini_image(response) ==
  IF ~IsDict(response) THEN NoText
  ELSE LET candidates == Get(response, "candidates") IN
  IF ~IsList(candidates) \/ ~Truthy(candidates) THEN NoText
  ELSE LET first == candidates.v[1]
           content == IF IsDict(first) THEN Get(first, "content") ELSE JNull
           part_list == IF IsDict(content) THEN Get(content, "parts") ELSE JNull
       IN IF ~IsList(part_list) THEN NoText ELSE FirstNonBlankText(part_list.v)

\* the inner loop over the part_list of one message entry: the first
\* output_text part with a str text, if any
RECURSIVE PartText(_)
PartText(content) ==
  IF content = <<>> THEN NoText
  ELSE IF IsDict(content[1]) /\ IsText(Get(content[1], "type"), S_output_text)
          /\ IsStr(Get(content[1], "text"))
    THEN Text(Get(content[1], "text").v)
  ELSE PartText(Tail(content))

\* the outer loop over body["output"]
RECURSIVE EntryText(_)
EntryText(outputs) ==
  IF outputs = <<>> THEN NoText
  ELSE LET entry == outputs[1] IN
    IF ~IsDict(entry) THEN EntryText(Tail(outputs))
    ELSE IF ~IsText(Get(entry, "type"), S_message) THEN EntryText(Tail(outputs))
    ELSE IF ~IsList(Get(entry, "content")) THEN EntryText(Tail(outputs))
    ELSE IF PartText(Get(entry, "content").v).o = "text" THEN PartText(Get(entry, "content").v)
    ELSE EntryText(Tail(outputs))

\* batch-openai-image/extract_openai_image_batch_output.py, extract_text(body)
extract_text_openai_image(body) ==
  LET text_direct == IF IsDict(body) THEN Get(body, "output_text") ELSE JNull IN
  IF IsStr(text_direct) /\ StripText(text_direct.v) # <<>> THEN Text(text_direct.v)
  ELSE LET outputs == IF IsDict(body) THEN Get(body, "output") ELSE JNull IN
    IF ~IsList(outputs) THEN NoText ELSE EntryText(outputs.v)

\* str(n) for a natural number
DigitChars == <<"0","1","2","3","4","5","6","7","8","9">>
RECURSIVE Decimal(_)
Decimal(n) ==
  IF n < 10 THEN <<DigitChars[n + 1]>> ELSE Decimal(n \div 10) \o <<DigitChars[(n % 10) + 1]>>

\* f"{n:04d}"
Pad4(n) == Repeat("0", 4 - Len(Decimal(n))) \o Decimal(n)

\* ch.isalnum()
IsAlnum(ch) == ch \in Range(LowerLetters) \cup Range(UpperLetters) \cup Digits \cup {"half"}

\* safe_stem(key, fallback), for a key that is a str or falsy
safe_stem(key, fallback) ==
  LET raw == IF Truthy(key) THEN key.v ELSE fallback IN
  [n \in 1..Len(raw) |-> IF IsAlnum(raw[n]) \/ raw[n] \in {"-", ".", "_"} THEN raw[n] ELSE "_"]

DotTsv == <<".","t","s","v">>
RowDash == <<"r","o","w","-">>
LineDash == <<"l","i","n","e","-">>

\* what one iteration of an extractor's loop does with line n of the file:
\* kind is "blank" (skipped), "invalid" (json.loads raises JSONDecodeError),
\* "raise" (another exception leaves the loop), "notext" or "write"
Iteration(kind, name, content) == [kind |-> kind, name |-> name, content |-> content]

\* process_file of batch/extract_batch_output.py (key field "custom_id") and
\* of batch-gemini/extract_gemini_batch_output.py (key field "key")
ProcessFileLine(line, n, extracted, key_field) ==
  IF line.kind # "json" THEN Iteration(line.kind, <<>>, <<>>)
  ELSE IF extracted.o = "raise" THEN Iteration("raise", <<>>, <<>>)
  ELSE IF extracted.o = "none" THEN Iteration("notext", <<>>, <<>>)
  ELSE LET key == IF key_field \in DOMAIN line.value.v THEN line.value.v[key_field]
                  ELSE JStr(<<>>)
       IN IF Truthy(key) /\ ~IsStr(key) THEN Iteration("raise", <<>>, <<>>)
          ELSE Iteration("write", safe_stem(key, LineDash \o Pad4(n)) \o DotTsv,
                         extracted.text \o <<"\n">>)

\* the loop body of the two Gemini image extractors
GeminiImageLine(line, n) ==
  IF line.kind # "json" THEN Iteration(line.kind, <<>>, <<>>)
  ELSE LET obj == line.value IN
  IF ~IsDict(obj) THEN Iteration("raise", <<>>, <<>>)
  ELSE LET key == IF Truthy(Get(obj, "key")) THEN Get(obj, "key").v ELSE RowDash \o Decimal(n)
           response == IF IsDict(Get(obj, "response")) THEN Get(obj, "response") ELSE JNull
           text == extract_text_gemini_image(response)
       IN IF text.o = "none" \/ text.text = <<>> THEN Iteration("notext", <<>>, <<>>)
          ELSE Iteration("write", key \o DotTsv, StripText(text.text) \o <<"\n">>)

\* the loop body of extract_openai_image_batch_output.py
OpenAIImageLine(line, n) ==
  IF line.kind # "json" THEN Iteration(line.kind, <<>>, <<>>)
  ELSE LET obj == line.value IN
  IF ~IsDict(obj) THEN Iteration("raise", <<>>, <<>>)
  ELSE LET custom_id == IF Truthy(Get(obj, "custom_id")) THEN Get(obj, "custom_id").v
                        ELSE IF Truthy(Get(obj, "id")) THEN Get(obj, "id").v
                        ELSE RowDash \o Decimal(n)
           resp == IF IsDict(Get(obj, "response")) THEN Get(obj, "response") ELSE JNull
           body == IF Truthy(resp) THEN Get(resp, "body") ELSE JNull
           text == IF IsDict(body) THEN extract_text_openai_image(body) ELSE NoText
       IN IF text.o = "none" \/ text.text = <<>> THEN Iteration("notext", <<>>, <<>>)
          ELSE Iteration("write", custom_id \o DotTsv, StripText(text.text) \o <<"\n">>)

Scripts == {"batch", "gemini", "gemini_image", "gemini_image_text", "openai_image"}

\* the scripts that keep one list of error messages and no missing counter
ListScripts == {"batch", "gemini"}

LineResult(s, line, n) ==
  CASE s = "batch" ->
         ProcessFileLine(line, n, IF line.kind = "json" THEN extract_text_batch(line.value)
                                  ELSE NoText, "custom_id")
    [] s = "gemini" ->
         ProcessFileLine(line, n, IF line.kind = "json" THEN extract_text_gemini(line.value)
                                  ELSE NoText, "key")
    [] s \in {"gemini_image", "gemini_image_text"} -> GeminiImageLine(line, n)
    [] s = "openai_image" -> OpenAIImageLine(line, n)

\* ------------------------------------------------------------------------
\* The lines of a vendor output file
\* ------------------------------------------------------------------------

K_1887_1 == <<"1","8","8","7","-","1">>
K_a_b == <<"a","_","b">>
K_a_sp_b == <<"a"," ","b">>
X_A == <<"A">>
X_B == <<"B","\n">>
X_C == <<"C">>

\* an OpenAI Responses output line
OpenAILine(custom_id, status_code, body) ==
  [kind |-> "json",
   value |-> JObj([custom_id |-> JStr(custom_id),
                   response |-> JObj([status_code |-> JNum(status_code), body |-> body])])]

OutputText(text) == JObj([type |-> JStr(S_output_text), text |-> JStr(text)])
Message(content) == JObj([type |-> JStr(S_message), content |-> JList(content)])

\* a Gemini output line
GeminiLine(key, part_list) ==
  [kind |-> "json",
   value |-> JObj([key |-> JStr(key),
                   response |-> JObj([candidates |->
                     JList(<<JObj([content |-> JObj([parts |-> JList(part_list)])])>>)])])]

TextPart(text) == JObj([text |-> JStr(text)])

VendorLines ==
  << [kind |-> "blank", value |-> JNull],                               \* an empty line
     [kind |-> "invalid", value |-> JNull],                             \* not JSON
     [kind |-> "json", value |-> JList(<<>>)],                          \* [] : JSON, not an object
     OpenAILine(K_1887_1, 200, JObj([output |-> JList(<<Message(<<OutputText(X_A)>>)>>)])),
     OpenAILine(K_a_sp_b, 200, JObj([output_text |-> JStr(X_C),
                                     output |-> JList(<<Message(<<OutputText(X_B)>>)>>)])),
     OpenAILine(K_a_b, 200, JObj([output |-> JList(<<Message(<<OutputText(<<>>)>>)>>)])),
     OpenAILine(K_1887_1, 500, JObj([error |-> JStr(<<"x">>)])),        \* an error payload
     OpenAILine(K_1887_1, 200, JObj([output |-> JList(<<JStr(<<"x">>),  \* a non-object entry
                                                        Message(<<OutputText(X_A)>>)>>)])),
     GeminiLine(K_1887_1, <<TextPart(X_A)>>),
     GeminiLine(K_a_sp_b, <<TextPart(<<>>), TextPart(X_B)>>),
     GeminiLine(K_a_b, <<TextPart(<<>>)>>),
     [kind |-> "json",                                                  \* an error payload
      value |-> JObj([key |-> JStr(K_1887_1), error |-> JObj([code |-> JNum(13)])])],
     GeminiLine(K_1887_1, <<JStr(<<"x">>), TextPart(X_A)>>) >>          \* a non-object part

MaxOutputLines == 2    \* lines of a vendor output file

\* ------------------------------------------------------------------------
\* One run of an extractor over one output file
\* ------------------------------------------------------------------------

InitExtract ==
  /\ script \in Scripts
  /\ \/ in_exists = FALSE /\ jsonl = <<>>
     \/ /\ in_exists = TRUE
        /\ \E n \in 0..MaxOutputLines : \E ix \in [1..n -> 1..Len(VendorLines)] :
             jsonl = [i \in 1..n |-> VendorLines[ix[i]]]
  /\ line_no = 1 /\ written = 0 /\ missing = 0 /\ errors = 0
  /\ out_files = <<>> /\ writes = <<>> /\ xpc = "open"
  /\ RepairIdle /\ UploadIdle /\ StatusIdle /\ RunIdle /\ CallsIdle /\ BuildIdle /\ CorrectIdle /\ CheckIdle

\* the input file is opened. When it does not exist: the list extractors
\* call input_path.read_text, which raises FileNotFoundError; the two image
\* extractors raise SystemExit("Output JSONL not found: ..."); the image+text
\* extractor prints "skip missing file: ...", goes on to the next input and
\* then prints the TOTAL line
X_Open ==
  /\ xpc = "open"
  /\ xpc' = IF in_exists THEN "loop"
            ELSE IF script \in ListScripts THEN "raised"
            ELSE IF script \in {"gemini_image", "openai_image"} THEN "exit"
            ELSE "done"
  /\ UNCHANGED <<not_extract, script, in_exists, jsonl, line_no, written, missing,
                 errors, out_files, writes>>

AtLine(kind) ==
  /\ xpc = "loop" /\ line_no <= Len(jsonl)
  /\ LineResult(script, jsonl[line_no], line_no).kind = kind

\* if not line.strip(): continue
X_SkipBlank ==
  /\ AtLine("blank")
  /\ line_no' = line_no + 1
  /\ UNCHANGED <<not_extract, script, in_exists, jsonl, written, missing, errors,
                 out_files, writes, xpc>>

\* except json.JSONDecodeError: the line is counted as an error
X_ParseError ==
  /\ AtLine("invalid")
  /\ errors' = errors + 1 /\ line_no' = line_no + 1
  /\ UNCHANGED <<not_extract, script, in_exists, jsonl, written, missing,
                 out_files, writes, xpc>>

\* no text: an error message is appended, or missing is incremented
X_NoText ==
  /\ AtLine("notext")
  /\ IF script \in ListScripts
       THEN errors' = errors + 1 /\ UNCHANGED missing
       ELSE missing' = missing + 1 /\ UNCHANGED errors
  /\ line_no' = line_no + 1
  /\ UNCHANGED <<not_extract, script, in_exists, jsonl, written, out_files, writes, xpc>>

\* out_path.write_text(...); written += 1
X_Write ==
  /\ AtLine("write")
  /\ LET r == LineResult(script, jsonl[line_no], line_no) IN
       out_files' = [name \in DOMAIN out_files \cup {r.name} |->
                       IF name = r.name THEN r.content ELSE out_files[name]]
  /\ writes' = Append(writes, line_no)
  /\ written' = written + 1 /\ line_no' = line_no + 1
  /\ UNCHANGED <<not_extract, script, in_exists, jsonl, missing, errors, xpc>>

\* an exception other than JSONDecodeError: nothing catches it, the run ends
\* with a traceback and prints no counts
X_Raise ==
  /\ AtLine("raise")
  /\ xpc' = "raised"
  /\ UNCHANGED <<not_extract, script, in_exists, jsonl, line_no, written, missing,
                 errors, out_files, writes>>

\* the loop is over: the counts are printed
X_Finish ==
  /\ xpc = "loop" /\ line_no > Len(jsonl)
  /\ xpc' = "done"
  /\ UNCHANGED <<not_extract, script, in_exists, jsonl, line_no, written, missing,
                 errors, out_files, writes>>

NextExtract == X_Open \/ X_SkipBlank \/ X_ParseError \/ X_NoText \/ X_Write \/ X_Raise \/ X_Finish

SpecExtract == InitExtract /\ [][NextExtract]_vars

\* ------------------------------------------------------------------------
\* The extractors: what becomes of each line
\* ------------------------------------------------------------------------

\* the number of non-blank lines among the first k of the file
RECURSIVE NonBlankLines(_)
NonBlankLines(k) ==
  IF k = 0 THEN 0
  ELSE NonBlankLines(k - 1) + (IF jsonl[k].kind = "blank" THEN 0 ELSE 1)

\* C13: an extractor never aborts on a line (missing, invalid JSON, error
\* payload, unexpected shape, valid JSON that is not an object, non-object
\* entries in the output list): the line is counted and the loop goes on,
\* and at the end written + missing + errors is the number of non-blank
\* lines.
C13_NeverAbortsAndCountsAddUp ==
  /\ in_exists => xpc # "raised"
  /\ xpc \in {"loop", "done"} =>
       written + missing + errors = NonBlankLines(line_no - 1)
  /\ xpc = "done" => line_no = Len(jsonl) + 1

\* the key a request carries in its output line (<<>> when it has none)
KeyOf(line) ==
  IF line.kind # "json" \/ ~IsDict(line.value) THEN <<>>
  ELSE IF IsStr(Get(line.value, "key")) THEN Get(line.value, "key").v
  ELSE IF IsStr(Get(line.value, "custom_id")) THEN Get(line.value, "custom_id").v
  ELSE <<>>

\* the text fields of a success line, in the order of the line
TextFields(line) ==
  IF line.kind # "json" THEN <<>>
  ELSE LET response == Get(line.value, "response")
       IN IF IsDict(line.value) /\ IsDict(response) /\ IsList(Get(response, "candidates"))
            THEN TextsOf(Get(Get(Get(response, "candidates").v[1], "content"), "parts").v)
          ELSE IF IsDict(line.value) /\ IsDict(response) /\ IsDict(Get(response, "body"))
                  /\ IsList(Get(Get(response, "body"), "output"))
            THEN LET output == Get(Get(response, "body"), "output").v
                     entries == SelectSeq(output, LAMBDA e : IsDict(e) /\ IsList(Get(e, "content")))
                 IN IF entries = <<>> THEN <<>>
                    ELSE LET found == SelectSeq(Get(entries[1], "content").v,
                                                LAMBDA c : IsDict(c) /\ IsStr(Get(c, "text")))
                         IN [n \in 1..Len(found) |-> Get(found[n], "text").v]
          ELSE <<>>

NonEmptyTexts(line) == SelectSeq(TextFields(line), LAMBDA text : StripText(text) # <<>>)

\* the file the line at position n was written to
FileOf(n) == LineResult(script, jsonl[n], n).name

\* C14: each line written is a success line with a non-empty text field; it
\* is written to a file of its own key, distinct keys giving distinct
\* files, and the file holds that line's first non-empty text and nothing
\* of another request.
C14_FilePerKeyWithItsText ==
  \A i \in 1..Len(writes) :
    LET n == writes[i] IN
    /\ NonEmptyTexts(jsonl[n]) # <<>>
    /\ \A j \in 1..Len(writes) :
         KeyOf(jsonl[writes[j]]) # KeyOf(jsonl[n]) => FileOf(writes[j]) # FileOf(n)
    /\ (\A j \in (i + 1)..Len(writes) : FileOf(writes[j]) # FileOf(n))
         => StripText(out_files[FileOf(n)]) = StripText(NonEmptyTexts(jsonl[n])[1])

\* ------------------------------------------------------------------------
\* The image uploaders: upload_gemini_images.py and upload_openai_images.py
\* ------------------------------------------------------------------------

Y_1887 == <<"1","8","8","7">>
Y_1888 == <<"1","8","8","8">>

\* a row of the benchmark TSV as csv.DictReader hands it over; a cell the
\* line does not have is None
Row(year, page) == [year |-> year, page |-> page]

RowCatalogue ==
  { Row(Some(Y_1887), Some(<<"1">>)),
    Row(Some(Y_1887), Some(<<"2">>)),
    Row(Some(Y_1887), Some(<<"1", " ">>)),     \* page 1 again, with a blank after it
    Row(Some(Y_1888), Some(<<"1">>)),          \* no image of this page
    Row(Some(Y_1887), Some(<<" ">>)),          \* a blank page cell
    Row(Some(Y_1887), None) }                  \* a line with one cell only

MaxRows == 2    \* rows of the benchmark TSV

RowLists == UNION { [1..n -> RowCatalogue] : n \in 0..MaxRows }

\* the pages that have an image under --images-root
ImageFiles == { <<Y_1887, <<"1">>>>, <<Y_1887, <<"2">>>> }

find_image(year, page) ==
  IF <<year, page>> \in ImageFiles THEN Some(<<year, page>>) ELSE None

CustomId(year, page) == year \o <<"-">> \o page

\* the lines --out may hold before the run
MappingLines ==
  << [kind |-> "json",
      value |-> JObj([custom_id |-> JStr(CustomId(Y_1887, <<"1">>)),
                      file_name |-> JStr(<<"f">>), file_id |-> JStr(<<"f">>)])],
     [kind |-> "invalid", value |-> JNull],      \* a line cut short
     [kind |-> "blank", value |-> JNull],
     [kind |-> "json", value |-> JList(<<>>)],
     [kind |-> "json",                           \* upload_one found no name
      value |-> JObj([custom_id |-> JStr(CustomId(Y_1887, <<"1">>)),
                      file_name |-> JNull, file_id |-> JStr(<<"f">>)])] >>

MappingFiles == { <<>>, <<1>>, <<1, 2>>, <<3, 1>>, <<4>>, <<5>> }

\* load_existing: the custom_ids of the decodable records; raised when a
\* line is JSON but not an object
RECURSIVE load_existing(_)
load_existing(path_lines) ==
  IF path_lines = <<>> THEN [raised |-> FALSE, mapping |-> {}]
  ELSE LET mline == MappingLines[Head(path_lines)]
           rest == load_existing(Tail(path_lines))
       IN  IF mline.kind \in {"blank", "invalid"} THEN rest
           ELSE IF ~IsDict(mline.value) THEN [raised |-> TRUE, mapping |-> {}]
           ELSE LET cid == Get(mline.value, "custom_id")
                    fname == IF uploader = "gemini" THEN Get(mline.value, "file_name")
                             ELSE Get(mline.value, "file_id")
                IN  IF IsStr(cid) /\ IsStr(fname)
                    THEN [raised |-> rest.raised, mapping |-> rest.mapping \cup {cid.v}]
                    ELSE rest

InitUpload ==
  /\ RepairIdle /\ ExtractIdle /\ StatusIdle /\ RunIdle /\ CallsIdle /\ BuildIdle /\ CorrectIdle /\ CheckIdle
  /\ uploader \in {"gemini", "openai"}
  /\ tsv_rows \in RowLists
  /\ resume \in BOOLEAN
  /\ limit \in {0, 1}
  /\ workers \in IF uploader = "gemini" THEN {1, 2} ELSE {0}
  /\ mapping_file \in MappingFiles
  /\ existing = {} /\ row_no = 0 /\ uploaded = 0 /\ skipped = 0 /\ failed = 0
  /\ processed = 0 /\ missing_images = <<>> /\ futures = <<>> /\ task = <<>>
  /\ cur = 0 /\ lock = "free" /\ appended = <<>> /\ failure_log = <<>>
  /\ summary = None /\ upc = "start"

\* existing = load_existing(args.out) if args.resume else {}
U_Load ==
  /\ upc = "start"
  /\ LET loaded == IF resume THEN load_existing(mapping_file)
                   ELSE [raised |-> FALSE, mapping |-> {}]
     IN  /\ existing' = loaded.mapping
         /\ upc' = IF loaded.raised THEN "raised_load" ELSE "rows"
         /\ row_no' = IF loaded.raised THEN 0 ELSE 1
  /\ UNCHANGED <<not_upload, upload_args, uploaded, skipped, failed, processed,
                 missing_images, futures, task, cur, lock, appended, failure_log, summary>>

AtRow(which) == uploader = which /\ upc = "rows" /\ row_no <= Len(tsv_rows)

\* the key parts of the row the Gemini uploader is at: row.get(...).strip()
G_Year == Strip(tsv_rows[row_no].year[1])
G_Page == Strip(tsv_rows[row_no].page[1])

\* None.strip(): the row has no page cell
G_RowRaises ==
  /\ AtRow("gemini")
  /\ tsv_rows[row_no].year = None \/ tsv_rows[row_no].page = None
  /\ upc' = "raised_row"
  /\ UNCHANGED <<not_upload, upload_args, existing, row_no, uploaded, skipped, failed,
                 processed, missing_images, futures, task, cur, lock, appended,
                 failure_log, summary>>

G_Row ==
  /\ AtRow("gemini")
  /\ tsv_rows[row_no].year # None /\ tsv_rows[row_no].page # None

G_RowSkipped ==
  /\ G_Row
  /\ resume /\ CustomId(G_Year, G_Page) \in existing
  /\ processed' = processed + 1
  /\ skipped' = skipped + 1
  /\ row_no' = row_no + 1
  /\ UNCHANGED <<not_upload, upload_args, existing, uploaded, failed, missing_images,
                 futures, task, cur, lock, appended, failure_log, summary, upc>>

G_RowMissingImage ==
  /\ G_Row
  /\ ~(resume /\ CustomId(G_Year, G_Page) \in existing)
  /\ find_image(G_Year, G_Page) = None
  /\ processed' = processed + 1
  /\ missing_images' = Append(missing_images, CustomId(G_Year, G_Page))
  /\ row_no' = row_no + 1
  /\ UNCHANGED <<not_upload, upload_args, existing, uploaded, skipped, failed,
                 futures, task, cur, lock, appended, failure_log, summary, upc>>

G_LimitReached == limit # 0 /\ uploaded + Len(futures) >= limit

\* print("Reached upload limit."); break
G_RowLimit ==
  /\ G_Row
  /\ ~(resume /\ CustomId(G_Year, G_Page) \in existing)
  /\ find_image(G_Year, G_Page) # None
  /\ G_LimitReached
  /\ processed' = processed + 1
  /\ upc' = "submit"
  /\ UNCHANGED <<not_upload, upload_args, existing, row_no, uploaded, skipped, failed,
                 missing_images, futures, task, cur, lock, appended, failure_log, summary>>

G_RowQueued ==
  /\ G_Row
  /\ ~(resume /\ CustomId(G_Year, G_Page) \in existing)
  /\ find_image(G_Year, G_Page) # None
  /\ ~G_LimitReached
  /\ processed' = processed + 1
  /\ futures' = Append(futures, CustomId(G_Year, G_Page))
  /\ row_no' = row_no + 1
  /\ UNCHANGED <<not_upload, upload_args, existing, uploaded, skipped, failed,
                 missing_images, task, cur, lock, appended, failure_log, summary, upc>>

G_RowsDone ==
  /\ uploader = "gemini" /\ upc = "rows" /\ row_no > Len(tsv_rows)
  /\ upc' = "submit"
  /\ UNCHANGED <<not_upload, upload_args, existing, row_no, uploaded, skipped, failed,
                 processed, missing_images, futures, task, cur, lock, appended,
                 failure_log, summary>>

\* future_map = {pool.submit(upload_one, path, cid): ... for cid, path in futures}
G_Submit ==
  /\ upc = "submit"
  /\ task' = [i \in 1..Len(futures) |-> "queued"]
  /\ upc' = "wait"
  /\ UNCHANGED <<not_upload, upload_args, existing, row_no, uploaded, skipped, failed,
                 processed, missing_images, futures, cur, lock, appended, failure_log,
                 summary>>

Running == { i \in DOMAIN task : task[i] = "running" }
MaxWorkers == IF workers > 1 THEN workers ELSE 1        \* max(1, args.workers)

InPool == upc \in {"wait", "write_json", "write_nl", "count", "except", "finally"}

\* a pool thread takes a queued upload_one
W_Start(i) ==
  /\ InPool /\ task[i] = "queued" /\ Cardinality(Running) < MaxWorkers
  /\ task' = [task EXCEPT ![i] = "running"]
  /\ UNCHANGED <<not_upload, upload_args, existing, row_no, uploaded, skipped, failed,
                 processed, missing_images, futures, cur, lock, appended, failure_log,
                 summary, upc>>

\* client.files.upload returns, or raises
W_Finish(i, outcome) ==
  /\ InPool /\ task[i] = "running"
  /\ task' = [task EXCEPT ![i] = outcome]
  /\ UNCHANGED <<not_upload, upload_args, existing, row_no, uploaded, skipped, failed,
                 processed, missing_images, futures, cur, lock, appended, failure_log,
                 summary, upc>>

\* for future in as_completed(future_map): record = future.result()
G_Take(i) ==
  /\ upc = "wait" /\ cur = 0 /\ task[i] \in {"ok", "error"}
  /\ cur' = i
  /\ upc' = IF task[i] = "ok" THEN "write_json" ELSE "except"
  /\ UNCHANGED <<not_upload, upload_args, existing, row_no, uploaded, skipped, failed,
                 processed, missing_images, futures, task, lock, appended, failure_log,
                 summary>>

Chunk(cid, what) == [cid |-> cid, what |-> what]

\* with lock: f_out.write(json.dumps(record, ensure_ascii=False))
G_WriteJson ==
  /\ upc = "write_json" /\ lock = "free"
  /\ lock' = "main"
  /\ appended' = Append(appended, Chunk(futures[cur], "json"))
  /\ upc' = "write_nl"
  /\ UNCHANGED <<not_upload, upload_args, existing, row_no, uploaded, skipped, failed,
                 processed, missing_images, futures, task, cur, failure_log, summary>>

\* the record left without its newline
G_WriteNewline_Dropped ==
  /\ upc = "write_nl"
  /\ upc' = "count"
  /\ UNCHANGED <<not_upload, upload_args, existing, row_no, uploaded, skipped, failed,
                 processed, missing_images, futures, task, cur, lock, appended,
                 failure_log, summary>>

\* f_out.write("\n")
G_WriteNewline ==
  /\ upc = "write_nl"
  /\ appended' = Append(appended, Chunk(futures[cur], "newline"))
  /\ upc' = "count"
  /\ UNCHANGED <<not_upload, upload_args, existing, row_no, uploaded, skipped, failed,
                 processed, missing_images, futures, task, cur, lock, failure_log, summary>>

\* uploaded += 1, and the lock is released
G_Count ==
  /\ upc = "count"
  /\ uploaded' = uploaded + 1
  /\ lock' = "free"
  /\ upc' = "finally"
  /\ UNCHANGED <<not_upload, upload_args, existing, row_no, skipped, failed, processed,
                 missing_images, futures, task, cur, appended, failure_log, summary>>

\* except Exception as exc: failed += 1; print(f"upload failed for {cid} ...")
G_Except ==
  /\ upc = "except"
  /\ failed' = failed + 1
  /\ failure_log' = Append(failure_log, futures[cur])
  /\ upc' = "finally"
  /\ UNCHANGED <<not_upload, upload_args, existing, row_no, uploaded, skipped, processed,
                 missing_images, futures, task, cur, lock, appended, summary>>

\* finally: with lock: completed += 1
G_Finally ==
  /\ upc = "finally" /\ lock = "free"
  /\ task' = [task EXCEPT ![cur] = IF task[cur] = "ok" THEN "ok_handled" ELSE "error_handled"]
  /\ cur' = 0
  /\ upc' = "wait"
  /\ UNCHANGED <<not_upload, upload_args, existing, row_no, uploaded, skipped, failed,
                 processed, missing_images, futures, lock, appended, failure_log, summary>>

Counts == [uploaded |-> uploaded, skipped |-> skipped, failed |-> failed,
           missing_images |-> Len(missing_images)]

\* the final prints
G_Summary ==
  /\ upc = "wait" /\ \A i \in DOMAIN task : task[i] \in {"ok_handled", "error_handled"}
  /\ summary' = Some(Counts)
  /\ upc' = "done"
  /\ UNCHANGED <<not_upload, upload_args, existing, row_no, uploaded, skipped, failed,
                 processed, missing_images, futures, task, cur, lock, appended,
                 failure_log>>

\* the key parts of the row the OpenAI uploader is at: (row.get(...) or "").strip()
OrEmpty(cell) == IF cell = None THEN <<>> ELSE cell[1]
O_Year == Strip(OrEmpty(tsv_rows[row_no].year))
O_Page == Strip(OrEmpty(tsv_rows[row_no].page))

\* if not year or not page: continue
O_RowEmpty ==
  /\ AtRow("openai")
  /\ O_Year = <<>> \/ O_Page = <<>>
  /\ row_no' = row_no + 1
  /\ UNCHANGED <<not_upload, upload_args, existing, uploaded, skipped, failed, processed,
                 missing_images, futures, task, cur, lock, appended, failure_log,
                 summary, upc>>

O_Row == AtRow("openai") /\ O_Year # <<>> /\ O_Page # <<>>

O_RowSkipped ==
  /\ O_Row
  /\ resume /\ CustomId(O_Year, O_Page) \in existing
  /\ processed' = processed + 1
  /\ skipped' = skipped + 1
  /\ row_no' = row_no + 1
  /\ UNCHANGED <<not_upload, upload_args, existing, uploaded, failed, missing_images,
                 futures, task, cur, lock, appended, failure_log, summary, upc>>

O_RowMissingImage ==
  /\ O_Row
  /\ ~(resume /\ CustomId(O_Year, O_Page) \in existing)
  /\ find_image(O_Year, O_Page) = None
  /\ processed' = processed + 1
  /\ missing_images' = Append(missing_images, CustomId(O_Year, O_Page))
  /\ row_no' = row_no + 1
  /\ UNCHANGED <<not_upload, upload_args, existing, uploaded, skipped, failed,
                 futures, task, cur, lock, appended, failure_log, summary, upc>>

\* client.files.create returns: the record is written, and the limit is looked at
O_RowUploaded ==
  /\ O_Row
  /\ ~(resume /\ CustomId(O_Year, O_Page) \in existing)
  /\ find_image(O_Year, O_Page) # None
  /\ processed' = processed + 1
  /\ appended' = appended \o << Chunk(CustomId(O_Year, O_Page), "json"),
                               Chunk(CustomId(O_Year, O_Page), "newline") >>
  /\ uploaded' = uploaded + 1
  /\ IF limit # 0 /\ uploaded + 1 >= limit
     THEN upc' = "summary" /\ row_no' = row_no
     ELSE upc' = upc /\ row_no' = row_no + 1
  /\ UNCHANGED <<not_upload, upload_args, existing, skipped, failed, missing_images,
                 futures, task, cur, lock, failure_log, summary>>

\* client.files.create raises: nothing catches it
O_UploadRaises ==
  /\ O_Row
  /\ ~(resume /\ CustomId(O_Year, O_Page) \in existing)
  /\ find_image(O_Year, O_Page) # None
  /\ processed' = processed + 1
  /\ upc' = "raised_upload"
  /\ UNCHANGED <<not_upload, upload_args, existing, row_no, uploaded, skipped, failed,
                 missing_images, futures, task, cur, lock, appended, failure_log, summary>>

O_RowsDone ==
  /\ uploader = "openai" /\ upc = "rows" /\ row_no > Len(tsv_rows)
  /\ upc' = "summary"
  /\ UNCHANGED <<not_upload, upload_args, existing, row_no, uploaded, skipped, failed,
                 processed, missing_images, futures, task, cur, lock, appended,
                 failure_log, summary>>

O_Summary ==
  /\ upc = "summary"
  /\ summary' = Some(Counts)
  /\ upc' = "done"
  /\ UNCHANGED <<not_upload, upload_args, existing, row_no, uploaded, skipped, failed,
                 processed, missing_images, futures, task, cur, lock, appended,
                 failure_log>>

NextUpload ==
  \/ U_Load
  \/ G_RowRaises \/ G_RowSkipped \/ G_RowMissingImage \/ G_RowLimit \/ G_RowQueued
  \/ G_RowsDone \/ G_Submit
  \/ \E i \in DOMAIN task : W_Start(i)
  \/ \E i \in DOMAIN task : W_Finish(i, "ok")
  \/ \E i \in DOMAIN task : W_Finish(i, "error")
  \/ \E i \in DOMAIN task : G_Take(i)
  \/ G_WriteJson \/ G_WriteNewline \/ G_Count \/ G_Except \/ G_Finally \/ G_Summary
  \/ O_RowEmpty \/ O_RowSkipped \/ O_RowMissingImage \/ O_RowUploaded \/ O_UploadRaises
  \/ O_RowsDone \/ O_Summary

SpecUpload == InitUpload /\ [][NextUpload]_vars

\* ------------------------------------------------------------------------
\* C15  The appends of the parallel uploader
\* ------------------------------------------------------------------------

\* the uploads whose record the as_completed loop has written
Recorded == { i \in DOMAIN task : task[i] = "ok_handled" }

\* how many complete lines of f_out carry the key cid
LinesOf(cid) ==
  Cardinality({ k \in 1..Len(appended) :
                  /\ k % 2 = 0
                  /\ appended[k].cid = cid /\ appended[k].what = "newline"
                  /\ appended[k - 1].cid = cid /\ appended[k - 1].what = "json" })

\* C15: in the parallel (Gemini) uploader, whatever the worker count and the
\* order in which the uploads complete, the output file is at every moment a
\* sequence of whole records (the JSON text of a record is followed by its own
\* newline before anything of another record is written), and when the run
\* ends every successful upload has exactly one line and nothing else was
\* written.
C15_AppendsSerialized ==
  uploader = "gemini" =>
    /\ \A k \in 1..Len(appended) :
         /\ appended[k].what = IF k % 2 = 1 THEN "json" ELSE "newline"
         /\ k % 2 = 0 => appended[k].cid = appended[k - 1].cid
    /\ Len(appended) % 2 = 1 => upc = "write_nl"
    /\ upc = "done" =>
         /\ Len(appended) = 2 * Cardinality(Recorded)
         /\ \A i \in DOMAIN futures :
              LinesOf(futures[i]) =
                Cardinality({ j \in Recorded : futures[j] = futures[i] })

\* two uploads on two workers, recorded in the reverse of the order queued
C15_Witness ==
  /\ uploader = "gemini" /\ workers = 2 /\ upc = "done"
  /\ Len(futures) = 2 /\ futures[1] # futures[2]
  /\ Len(appended) = 4
  /\ appended[1].cid = futures[2] /\ appended[3].cid = futures[1]

\* ------------------------------------------------------------------------
\* C16  A failed upload
\* ------------------------------------------------------------------------

\* C16: a failed image upload is caught, logged with its key and counted: it
\* never ends the run, and when the run ends every queued upload was either
\* recorded or counted as failed, each failure with its logged key.
C16_FailedUploadCaught ==
  /\ upc # "raised_upload"
  /\ uploader = "gemini" /\ upc = "done" =>
       /\ uploaded + failed = Len(futures)
       /\ Len(failure_log) = failed
       /\ \A k \in DOMAIN failure_log :
            \E i \in DOMAIN task : task[i] = "error_handled" /\ futures[i] = failure_log[k]

\* ------------------------------------------------------------------------
\* C19, C20  The rows of the benchmark TSV
\* ------------------------------------------------------------------------

\* C19: nothing is silently swallowed: when an uploader ends, the counts of
\* its final summary (uploaded, skipped, failed, missing images) account for
\* every row of the input.
C19_EveryRowAccounted ==
  upc = "done" =>
    summary[1].uploaded + summary[1].skipped + summary[1].failed
      + summary[1].missing_images = Len(tsv_rows)

\* the keys a run has produced: queued, reported missing, or written
EmittedKeys ==
  { futures[i] : i \in DOMAIN futures }
    \cup { missing_images[i] : i \in DOMAIN missing_images }
    \cup { appended[i].cid : i \in DOMAIN appended }

HasBothParts(cid) == cid # <<>> /\ Head(cid) # "-" /\ cid[Len(cid)] # "-"

\* C20: a row whose year or page is empty after trimming is skipped: every
\* key "<year>-<page>" a run produces has both parts non-empty.
C20_KeysHaveBothParts == \A cid \in EmittedKeys : HasBothParts(cid)

\* ------------------------------------------------------------------------
\* The Gemini status checkers: check_gemini_image_text_batch_status.py
\* ("image_text") and check_gemini_batch_status.py ("gemini")
\* ------------------------------------------------------------------------

\* the status of a vendor job
Unfinished == {"pending", "running"}
Finished == {"succeeded", "failed", "cancelled"}

\* batch.state.name for a status. The two checkers ask the same client for
\* the same kind of job and name its states differently; the vendor uses one
\* naming or the other.
StateName(status) ==
  IF naming = "JOB_STATE"
  THEN CASE status = "pending" -> "JOB_STATE_PENDING"
         [] status = "running" -> "JOB_STATE_RUNNING"
         [] status = "succeeded" -> "JOB_STATE_SUCCEEDED"
         [] status = "failed" -> "JOB_STATE_FAILED"
         [] status = "cancelled" -> "JOB_STATE_CANCELLED"
  ELSE CASE status = "pending" -> "PENDING"
         [] status = "running" -> "RUNNING"
         [] status = "succeeded" -> "PROCESSING_COMPLETE"
         [] status = "failed" -> "FAILED"
         [] status = "cancelled" -> "CANCELLED"

TERMINAL_STATES == {"PROCESSING_COMPLETE", "FAILED", "CANCELLED"}

completed_states ==
  {"JOB_STATE_SUCCEEDED", "JOB_STATE_FAILED", "JOB_STATE_CANCELLED", "JOB_STATE_EXPIRED"}

\* the loop test of the checker that runs
InLoopStates(name) ==
  IF checker = "image_text" THEN name \notin TERMINAL_STATES
  ELSE name \notin completed_states

MaxTargets == 2    \* batch sidecars of --batch-jsons-dir
MaxPolls == 2      \* sleeps that are told apart

InitStatus ==
  /\ RepairIdle /\ ExtractIdle /\ UploadIdle /\ RunIdle /\ CallsIdle /\ BuildIdle /\ CorrectIdle /\ CheckIdle
  /\ checker \in {"image_text", "gemini"}
  /\ wait \in BOOLEAN
  /\ naming \in {"JOB_STATE", "short"}
  /\ jobs \in UNION { [1..n -> Unfinished \cup Finished] :
                        n \in 1..(IF checker = "image_text" THEN MaxTargets ELSE 1) }
  /\ tgt = 1 /\ observed = None /\ polls = 0 /\ reported = <<>> /\ spc = "fetch"

\* the vendor's job moves on
V_Advance(i) ==
  /\ spc \notin {"idle", "done"}
  /\ \/ jobs[i] = "pending" /\ jobs' = [jobs EXCEPT ![i] = "running"]
     \/ /\ jobs[i] \in Unfinished
        /\ \E status \in Finished : jobs' = [jobs EXCEPT ![i] = status]
  /\ UNCHANGED <<not_status, checker, wait, naming, tgt, observed, polls, reported, spc>>

\* batch = fetch(), and the test that guards the loop
S_Fetch ==
  /\ spc = "fetch"
  /\ observed' = Some(StateName(jobs[tgt]))
  /\ spc' = IF wait /\ InLoopStates(StateName(jobs[tgt])) THEN "sleep" ELSE "report"
  /\ UNCHANGED <<not_status, checker, wait, naming, jobs, tgt, polls, reported>>

\* time.sleep(interval); batch = fetch(), and the loop test
S_Poll ==
  /\ spc = "sleep"
  /\ polls' = (polls + 1) % (MaxPolls + 1)
  /\ observed' = Some(StateName(jobs[tgt]))
  /\ spc' = IF InLoopStates(StateName(jobs[tgt])) THEN "sleep" ELSE "report"
  /\ UNCHANGED <<not_status, checker, wait, naming, jobs, tgt, reported>>

\* the report and the downloads of one target; then the next target
S_Report ==
  /\ spc = "report"
  /\ reported' = Append(reported, observed[1])
  /\ IF tgt < Len(jobs)
     THEN tgt' = tgt + 1 /\ spc' = "fetch" /\ polls' = 0
     ELSE tgt' = tgt /\ spc' = "done" /\ polls' = polls
  /\ UNCHANGED <<not_status, checker, wait, naming, jobs, observed>>

CheckerStep == S_Fetch \/ S_Poll \/ S_Report

NextStatus == (\E i \in DOMAIN jobs : V_Advance(i)) \/ S_Fetch \/ S_Poll \/ S_Report

SpecStatus == InitStatus /\ [][NextStatus]_vars

\* the calling thread is never stopped: a statement that can run does run
SpecStatusFair == SpecStatus /\ WF_vars(CheckerStep)

\* ------------------------------------------------------------------------
\* C17  Waiting for a terminal state
\* ------------------------------------------------------------------------

\* C17: when waiting is requested, the checker never reaches the report of a
\* target while the state it last observed is the vendor's pending or
\* running, and once the vendor reports a terminal status (succeeded, failed
\* or cancelled) for every job the run eventually ends.
C17_WaitsForTerminalState ==
  /\ [](wait /\ spc = "report" =>
          observed[1] \notin {StateName("pending"), StateName("running")})
  /\ ((wait /\ \A i \in DOMAIN jobs : jobs[i] \in Finished) ~> (spc = "done"))

\* ------------------------------------------------------------------------
\* The batch runners: run_gemini_image_text_batch.py ("gemini_image_text")
\* and batch/run_openai_batch.py ("openai")
\* ------------------------------------------------------------------------

\* the lines a request file may hold
RequestLines ==
  << [kind |-> "json",
      value |-> JObj([key |-> JStr(K_1887_1), request |-> JObj([contents |-> JList(<<>>)])])],
     [kind |-> "blank", value |-> JNull],
     [kind |-> "invalid", value |-> JNull],                              \* not JSON
     [kind |-> "json", value |-> JObj([key |-> JStr(K_1887_1)])],        \* no request
     [kind |-> "json",
      value |-> JObj([key |-> JStr(K_1887_1), request |-> JStr(<<"x">>)])],
     [kind |-> "json", value |-> JList(<<>>)] >>                         \* not an object

\* validate_jsonl: "ok", "exit" for a SystemExit, "raised" for another exception
RECURSIVE validate_jsonl(_)
validate_jsonl(path_lines) ==
  IF path_lines = <<>> THEN "ok"
  ELSE LET rline == RequestLines[Head(path_lines)]
       IN  IF rline.kind = "blank" THEN validate_jsonl(Tail(path_lines))
           ELSE IF rline.kind = "invalid" THEN "exit"
           ELSE IF ~IsDict(rline.value) THEN "raised"
           ELSE IF ~({"key", "request"} \subseteq DOMAIN rline.value.v) THEN "exit"
           ELSE IF ~IsDict(Get(rline.value, "request")) THEN "exit"
           ELSE validate_jsonl(Tail(path_lines))

\* a request file: whether it exists, and its lines
RequestFile(there, path_lines) == [exists |-> there, lines |-> path_lines]

ChunkCatalogue ==
  { RequestFile(TRUE, <<1>>), RequestFile(TRUE, <<1, 2, 1>>), RequestFile(TRUE, <<1, 3>>),
    RequestFile(TRUE, <<4>>), RequestFile(TRUE, <<1, 5>>), RequestFile(TRUE, <<6>>) }

MaxChunks == 2    \* request files of --chunks-dir

\* --file names one file, which may be absent; --chunks-dir gives the files
\* the glob finds
InitRun ==
  /\ RepairIdle /\ ExtractIdle /\ UploadIdle /\ StatusIdle /\ CallsIdle /\ BuildIdle /\ CorrectIdle /\ CheckIdle
  /\ runner \in {"gemini_image_text", "gemini_image", "openai"}
  /\ skip_validate \in IF runner = "openai" THEN {FALSE} ELSE BOOLEAN
  /\ chunk_files \in
       { <<f>> : f \in ChunkCatalogue \cup {RequestFile(FALSE, <<>>)} }
         \cup (IF runner = "gemini_image_text"
               THEN UNION { [1..n -> ChunkCatalogue] : n \in 2..MaxChunks }
               ELSE {})
  /\ file_no = 1 /\ calls = <<>> /\ sidecars = {} /\ rpc = "exists"

\* if not jsonl_path.exists(): raise SystemExit
R_Exists ==
  /\ rpc = "exists"
  /\ rpc' = IF ~chunk_files[file_no].exists THEN "exit"
            ELSE IF runner = "openai" THEN "upload" ELSE "validate"
  /\ UNCHANGED <<not_run, runner, skip_validate, chunk_files, file_no, calls, sidecars>>

\* if not skip_validate: validate_jsonl(jsonl_path)
R_Validate ==
  /\ rpc = "validate"
  /\ LET verdict == IF skip_validate THEN "ok" ELSE validate_jsonl(chunk_files[file_no].lines)
     IN  rpc' = IF verdict = "ok" THEN "upload" ELSE verdict
  /\ UNCHANGED <<not_run, runner, skip_validate, chunk_files, file_no, calls, sidecars>>

\* the calls of the vendor API made so far that uploaded a file
Uploads == { n \in DOMAIN calls : calls[n].op = "upload" }

\* a call of the vendor API: src is the name the vendor gives the uploaded
\* file (upload), or the name the batch is created from (create)
Call(op, src) == [op |-> op, file |-> file_no, src |-> src]

\* uploaded.name / upload.id: the local of the call under way
uploaded_name == calls[Len(calls)].src

\* client.files.upload / client.files.create returns, or raises
R_Upload(returns) ==
  /\ rpc = "upload"
  /\ calls' = Append(calls, Call("upload", Cardinality(Uploads) + 1))
  /\ rpc' = IF returns THEN "save_name" ELSE "raised"
  /\ UNCHANGED <<not_run, runner, skip_validate, chunk_files, file_no, sidecars>>

\* the sidecar is not written
R_SaveName_Skipped ==
  /\ rpc = "save_name"
  /\ rpc' = "create"
  /\ UNCHANGED <<not_run, runner, skip_validate, chunk_files, file_no, calls, sidecars>>

\* file_name_out.write_text(uploaded.name)
R_SaveName ==
  /\ rpc = "save_name"
  /\ sidecars' = sidecars \cup {[kind |-> "uploaded_name", file |-> file_no,
                                 text |-> uploaded_name]}
  /\ rpc' = "create"
  /\ UNCHANGED <<not_run, runner, skip_validate, chunk_files, file_no, calls>>

\* client.batches.create returns, or raises
R_Create(returns) ==
  /\ rpc = "create"
  /\ calls' = Append(calls, Call("create", uploaded_name))
  /\ rpc' = IF returns THEN "save_batch" ELSE "raised"
  /\ UNCHANGED <<not_run, runner, skip_validate, chunk_files, file_no, sidecars>>

\* batch_out.write_text(...); then the next chunk file
R_SaveBatch ==
  /\ rpc = "save_batch"
  /\ sidecars' = sidecars \cup {[kind |-> "batch", file |-> file_no,
                                 text |-> uploaded_name]}
  /\ IF file_no < Len(chunk_files)
     THEN file_no' = file_no + 1 /\ rpc' = "exists"
     ELSE file_no' = file_no /\ rpc' = "done"
  /\ UNCHANGED <<not_run, runner, skip_validate, chunk_files, calls>>

NextRun ==
  \/ R_Exists \/ R_Validate
  \/ R_Upload(TRUE) \/ R_Upload(FALSE) \/ R_SaveName
  \/ R_Create(TRUE) \/ R_Create(FALSE) \/ R_SaveBatch

SpecRun == InitRun /\ [][NextRun]_vars

\* ------------------------------------------------------------------------
\* C18  Validation before any vendor call
\* ------------------------------------------------------------------------

\* the request files of the run that hold an invalid request line
InvalidFiles ==
  { i \in DOMAIN chunk_files :
      chunk_files[i].exists /\ validate_jsonl(chunk_files[i].lines) # "ok" }

\* C18: whenever a request file the run would submit holds an invalid request
\* line, no file is uploaded and no batch job is created, with one file and
\* with several chunk files alike.
C18_NoCallWithInvalidFile == InvalidFiles # {} => calls = <<>>

\* ------------------------------------------------------------------------
\* C21  A missing input
\* ------------------------------------------------------------------------

\* C21: a missing input file is fatal: when the vendor output file an
\* extractor is given does not exist, the run never goes on to its loop and
\* never ends with the summary of a completed run.
C21_MissingInputFatal == ~in_exists /\ script # "none" => xpc \notin {"loop", "done"}

\* ------------------------------------------------------------------------
\* repair_line called several times by one process, as read_tsv does for
\* the malformed lines of a file
\* ------------------------------------------------------------------------

MaxCalls == 3    \* calls of repair_line in one process

CallLines ==
  { L_FourColumns, T_NoTab, Join(<<TAB>>, <<T_a, T_1887>>), T_Dupont, T_blank }

CallHeaders == { DEFAULT_HEADERS, <<H_nom, H_nom, H_notes>>, <<>> }

InitCalls ==
  /\ RepairIdle /\ ExtractIdle /\ UploadIdle /\ StatusIdle /\ RunIdle /\ BuildIdle /\ CorrectIdle /\ CheckIdle
  /\ history = <<>>

CallRecord(line, hs, returned) == [line |-> line, headers |-> hs, ret |-> returned]

\* a call that still holds the line of the call before it
CallRepairLine_Remembering(line, hs) ==
  /\ Len(history) < MaxCalls
  /\ history' = Append(history,
       CallRecord(line, hs,
                  IF history = <<>> THEN repair_line(line, hs)
                  ELSE repair_line(history[Len(history)].line \o <<TAB>> \o line, hs)))
  /\ UNCHANGED not_calls

\* repaired = repair_line(raw_line, headers): the function reads its two
\* arguments and the compiled patterns of the module, and binds only locals
CallRepairLine(line, hs) ==
  /\ Len(history) < MaxCalls
  /\ history' = Append(history, CallRecord(line, hs, repair_line(line, hs)))
  /\ UNCHANGED not_calls

NextCalls == \E line \in CallLines, hs \in CallHeaders : CallRepairLine(line, hs)

SpecCalls == InitCalls /\ [][NextCalls]_vars

\* ------------------------------------------------------------------------
\* C22  repair_line keeps no state
\* ------------------------------------------------------------------------

C28_AssertionNeverFails == ~(pc = "raised" /\ input_dir \in dirs)

\* ------------------------------------------------------------------------
\* C29  read_tsv and the data lines of a file
\* ------------------------------------------------------------------------

\* the lines of a file that are data: all of them, but for a first line in
\* which a column name is recognised
DataOf(lines) ==
  IF lines # <<>> /\ looks_like_header(CsvReadRow(lines[1])) THEN Tail(lines) ELSE lines

Unrepaired == Cardinality({n \in 1..Len(issues) : ~issues[n][4]})

\* C29: read_tsv loses no data line: when it returns, len(rows) plus the
\* number of issues flagged as not repaired is the number of non-blank lines
\* of the file that are not a real header line.
C29_NoDataLineLost ==
  pc = "repair_file" =>
    Len(rows) + Unrepaired
      = Cardinality({n \in 1..Len(DataOf(FileLines)) : NonBlank(DataOf(FileLines)[n])})

\* ------------------------------------------------------------------------
\* C30  Reading again what repair_file wrote
\* ------------------------------------------------------------------------

\* the loop of read_tsv (lines 78-94) over the lines from position k on
RECURSIVE ReadRows(_, _, _, _, _)
ReadRows(dlines, hs, offset, k, acc) ==
  IF k > Len(dlines) \/ acc.raised THEN acc
  ELSE LET line == dlines[k]
           tab_count == Count(line, TAB)
           values == Split(line, TAB)
           repaired == repair_line(line, hs)
       IN  IF Strip(line) = <<>> THEN ReadRows(dlines, hs, offset, k + 1, acc)
           ELSE IF tab_count = ExpectedTabs(hs)
             THEN IF Len(values) # Len(hs)
                    THEN [acc EXCEPT !.raised = TRUE]
                    ELSE ReadRows(dlines, hs, offset, k + 1,
                                  [acc EXCEPT !.rows = Append(@, DictZip(hs, values))])
           ELSE ReadRows(dlines, hs, offset, k + 1,
                  [acc EXCEPT
                     !.issues = Append(@, <<offset + k - 1, tab_count, line, repaired # None>>),
                     !.rows = IF repaired # None THEN Append(@, repaired[1]) ELSE @])

\* read_tsv on a file of the given lines
read_tsv(lines) ==
  IF lines = <<>>
    THEN [headers |-> <<>>, rows |-> <<>>, issues |-> <<>>, raised |-> FALSE]
    ELSE LET h == ReadHeader(lines) IN
         ReadRows(h.data_lines, h.headers, h.start_offset, 1,
                  [headers |-> h.headers, rows |-> <<>>, issues |-> <<>>, raised |-> FALSE])

\* the file repair_file wrote, once main is over
Written == fs[result[1].output[1]][1]

\* C30: the output of repair_file is a fixed point: every line written has
\* len(headers) - 1 tabs, and read_tsv on the written file returns the same
\* headers and the same rows and no issue.
C30_OutputIsFixedPoint ==
  pc = "done" /\ result # None /\ result[1].output # None =>
    /\ \A n \in 1..Len(Written) : Count(Written[n], TAB) = Len(headers) - 1
    /\ read_tsv(Written) =
         [headers |-> headers, rows |-> rows, issues |-> <<>>, raised |-> FALSE]

\* ------------------------------------------------------------------------
\* C23  Upload, file-id sidecar, batch, batch sidecar
\* ------------------------------------------------------------------------

\* the sidecars of one kind written for request file f
SidecarsOf(kind, f) == { c \in sidecars : c.kind = kind /\ c.file = f }

\* the creation of the batch of the file under way raised
CreateRaised ==
  /\ rpc = "raised" /\ calls # <<>>
  /\ calls[Len(calls)].op = "create" /\ calls[Len(calls)].file = file_no

\* C23: a batch is created only after the upload of the same file returned and
\* its name was saved in the file-id sidecar, and from that very name; the
\* batch sidecar exists only when the creation returned; when the creation
\* raises, the file-id sidecar is there and the batch sidecar is not.
C23_SubmissionOrder ==
  /\ \A n \in DOMAIN calls : calls[n].op = "create" =>
       /\ n > 1 /\ calls[n - 1].op = "upload"
       /\ calls[n - 1].file = calls[n].file /\ calls[n - 1].src = calls[n].src
       /\ SidecarsOf("uploaded_name", calls[n].file)
            = {[kind |-> "uploaded_name", file |-> calls[n].file, text |-> calls[n].src]}
  /\ \A c \in sidecars : c.kind = "batch" =>
       /\ \E n \in DOMAIN calls :
            calls[n].op = "create" /\ calls[n].file = c.file /\ calls[n].src = c.text
       /\ ~(CreateRaised /\ file_no = c.file)
  /\ CreateRaised =>
       /\ SidecarsOf("uploaded_name", file_no) # {}
       /\ SidecarsOf("batch", file_no) = {}

\* the creation of the batch of the second chunk file raised after the first
\* chunk file was submitted whole
C23_Witness ==
  /\ CreateRaised /\ file_no = 2
  /\ SidecarsOf("batch", 1) # {} /\ SidecarsOf("uploaded_name", 2) # {}

\* ------------------------------------------------------------------------
\* C24  --resume
\* ------------------------------------------------------------------------

\* the lines of --out, as the run found it, that are records of the key cid
RecordsBefore(cid) ==
  { n \in DOMAIN mapping_file :
      LET mline == MappingLines[mapping_file[n]]
      IN  /\ mline.kind = "json" /\ IsDict(mline.value)
          /\ Get(mline.value, "custom_id") = JStr(cid) }

\* the keys the run has sent, or is about to send, to the vendor
UploadKeys ==
  { futures[i] : i \in DOMAIN futures } \cup { appended[i].cid : i \in DOMAIN appended }

\* no two rows of the TSV have the same year and page cells
DistinctRows ==
  \A i, j \in DOMAIN tsv_rows : i # j => tsv_rows[i] # tsv_rows[j]

\* C24: one run with --resume over a TSV of distinct rows, on a mapping file
\* with at most one record for a key: a key with a record in the file is not
\* uploaded, a failed upload leaves no record, and the file still has at most
\* one record for a key.
C24_ResumeKeepsOneRecord ==
  resume /\ DistinctRows /\ (\A cid \in UploadKeys : Cardinality(RecordsBefore(cid)) <= 1) =>
    \A cid \in UploadKeys :
      /\ RecordsBefore(cid) = {}
      /\ Cardinality(RecordsBefore(cid)) + LinesOf(cid) <= 1

\* ------------------------------------------------------------------------
\* The image+text batch builder: build-gemini-image-text-batch-file.py
\* ------------------------------------------------------------------------

MaxBuildRows == 4     \* rows of the benchmark TSV
MaxLineBytes == 3     \* UTF-8 length of the longest request line

\* a row of the TSV: its year and page cells, and the UTF-8 length of the
\* request line json.dumps makes of it (prompt and image in base64)
BuildRow(year, page, bytes) == [year |-> year, page |-> page, bytes |-> bytes]

BuildRowCatalogue ==
  { BuildRow(Y_1887, <<"1">>, b) : b \in 1..MaxLineBytes }
    \cup { BuildRow(Y_1887, <<"2">>, 2),
           BuildRow(Y_1888, <<"1">>, 2),         \* no image of this page
           BuildRow(Y_1887, <<" ">>, 2) }        \* a blank page cell

\* the values of --chunk-max-bytes
ChunkMaxArgs == {0, 3, 4, 7}

InitBuild ==
  /\ RepairIdle /\ ExtractIdle /\ UploadIdle /\ StatusIdle /\ RunIdle /\ CallsIdle /\ CorrectIdle /\ CheckIdle
  /\ build_rows \in UNION { [1..n -> BuildRowCatalogue] : n \in 0..MaxBuildRows }
  /\ chunk_max_arg \in ChunkMaxArgs
  /\ build_row = 1 /\ buffer = <<>> /\ chunk_index = 1 /\ written_total = 0
  /\ chunks_written = 0 /\ current_bytes = 0 /\ build_missing = <<>>
  /\ build_processed = 0 /\ chunk_dir = {} /\ report = <<>> /\ bpc = "rows"

\* chunk_max_bytes = max(1, args.chunk_max_bytes)
chunk_max_bytes == IF chunk_max_arg > 1 THEN chunk_max_arg ELSE 1

AtBuildRow == bpc = "rows" /\ build_row <= Len(build_rows)

B_Year == Strip(build_rows[build_row].year)
B_Page == Strip(build_rows[build_row].page)

\* if not year or not page: continue
B_RowEmpty ==
  /\ AtBuildRow
  /\ B_Year = <<>> \/ B_Page = <<>>
  /\ build_row' = build_row + 1
  /\ UNCHANGED <<not_build, build_rows, chunk_max_arg, buffer, chunk_index, written_total,
                 chunks_written, current_bytes, build_missing, build_processed, chunk_dir,
                 report, bpc>>

\* if not image_path: missing_images.append(custom_id); continue
B_RowMissingImage ==
  /\ AtBuildRow
  /\ B_Year # <<>> /\ B_Page # <<>>
  /\ find_image(B_Year, B_Page) = None
  /\ build_processed' = build_processed + 1
  /\ build_missing' = Append(build_missing, CustomId(B_Year, B_Page))
  /\ build_row' = build_row + 1
  /\ UNCHANGED <<not_build, build_rows, chunk_max_arg, buffer, chunk_index, written_total,
                 chunks_written, current_bytes, chunk_dir, report, bpc>>

\* the request line of the row the loop is at
RequestLine == [key |-> CustomId(B_Year, B_Page), row |-> build_row,
                bytes |-> build_rows[build_row].bytes]

\* line_bytes = len(line.encode("utf-8")) + 1
line_bytes(line) == line.bytes + 1

\* the chunk is closed at this size, whatever it is
ChunkIsFull_Above(bytes) == bytes > chunk_max_bytes

\* if current_bytes >= chunk_max_bytes
ChunkIsFull(bytes) == bytes >= chunk_max_bytes

\* chunk_path.open("w") and the writes of the lines of the buffer
ChunkFile(lines) == [index |-> chunk_index, lines |-> lines]
WriteChunk(lines) ==
  { c \in chunk_dir : c.index # chunk_index } \cup {ChunkFile(lines)}

\* buffer.append(line); current_bytes += line_bytes; the chunk stays open
B_RowBuffered ==
  /\ AtBuildRow
  /\ B_Year # <<>> /\ B_Page # <<>>
  /\ find_image(B_Year, B_Page) # None
  /\ ~ChunkIsFull(current_bytes + line_bytes(RequestLine))
  /\ build_processed' = build_processed + 1
  /\ buffer' = Append(buffer, RequestLine)
  /\ current_bytes' = current_bytes + line_bytes(RequestLine)
  /\ build_row' = build_row + 1
  /\ UNCHANGED <<not_build, build_rows, chunk_max_arg, chunk_index, written_total,
                 chunks_written, build_missing, chunk_dir, report, bpc>>

\* buffer.append(line); current_bytes += line_bytes; the chunk is written
B_RowClosesChunk ==
  /\ AtBuildRow
  /\ B_Year # <<>> /\ B_Page # <<>>
  /\ find_image(B_Year, B_Page) # None
  /\ ChunkIsFull(current_bytes + line_bytes(RequestLine))
  /\ build_processed' = build_processed + 1
  /\ chunk_dir' = WriteChunk(Append(buffer, RequestLine))
  /\ written_total' = written_total + Len(buffer) + 1
  /\ chunks_written' = chunks_written + 1
  /\ chunk_index' = chunk_index + 1
  /\ buffer' = <<>>
  /\ current_bytes' = 0
  /\ build_row' = build_row + 1
  /\ UNCHANGED <<not_build, build_rows, chunk_max_arg, build_missing, report, bpc>>

\* after the loop: if buffer: the last chunk is written
B_LastChunk ==
  /\ bpc = "rows" /\ build_row > Len(build_rows)
  /\ IF buffer # <<>>
     THEN /\ chunk_dir' = WriteChunk(buffer)
          /\ written_total' = written_total + Len(buffer)
          /\ chunks_written' = chunks_written + 1
          /\ buffer' = <<>>
     ELSE UNCHANGED <<chunk_dir, written_total, chunks_written, buffer>>
  /\ bpc' = "report"
  /\ UNCHANGED <<not_build, build_rows, chunk_max_arg, build_row, chunk_index,
                 current_bytes, build_missing, build_processed, report>>

\* print(f"Wrote {written_total} requests across {chunks_written} file(s) ...")
B_Report ==
  /\ bpc = "report"
  /\ report' = <<written_total, chunks_written>>
  /\ bpc' = "done"
  /\ UNCHANGED <<not_build, build_rows, chunk_max_arg, build_row, buffer, chunk_index,
                 written_total, chunks_written, current_bytes, build_missing,
                 build_processed, chunk_dir>>

NextBuild ==
  \/ B_RowEmpty \/ B_RowMissingImage \/ B_RowBuffered \/ B_RowClosesChunk
  \/ B_LastChunk \/ B_Report

SpecBuild == InitBuild /\ [][NextBuild]_vars

\* ------------------------------------------------------------------------
\* C25  The chunk files of the builder
\* ------------------------------------------------------------------------

\* the chunk file of a number
ChunkNo(i) == CHOOSE c \in chunk_dir : c.index = i

\* the size of a file of these lines
RECURSIVE FileBytes(_)
FileBytes(lines) ==
  IF lines = <<>> THEN 0 ELSE line_bytes(Head(lines)) + FileBytes(Tail(lines))

\* the lines of the chunk files 1..n one after the other
RECURSIVE ChunkLines(_)
ChunkLines(n) == IF n = 0 THEN <<>> ELSE ChunkLines(n - 1) \o ChunkNo(n).lines

\* the rows of the TSV that have a year, a page and an image, in input order
RECURSIVE AcceptedRows(_)
AcceptedRows(n) ==
  IF n = 0 THEN <<>>
  ELSE LET year == Strip(build_rows[n].year)
           page == Strip(build_rows[n].page)
       IN  IF year # <<>> /\ page # <<>> /\ find_image(year, page) # None
           THEN Append(AcceptedRows(n - 1), n)
           ELSE AcceptedRows(n - 1)

\* C25: the chunk files are numbered 1, 2, ... without a gap and none is
\* empty; the buffer never reaches chunk-max-bytes between two rows, and every
\* chunk but the last reaches the maximum with its final line and is below it
\* without; when the run is over the lines of the chunks, in the order of
\* their numbers, are the accepted rows in input order, each once, and their
\* count is the reported written count, which is processed rows minus rows
\* with a missing image.
C25_ChunksPartitionRequests ==
  /\ { c.index : c \in chunk_dir } = 1..chunks_written
  /\ Cardinality(chunk_dir) = chunks_written
  /\ \A c \in chunk_dir : c.lines # <<>>
  /\ bpc = "rows" => current_bytes < chunk_max_bytes /\ current_bytes = FileBytes(buffer)
  /\ \A c \in chunk_dir :
       c.index < chunks_written \/ bpc = "rows" =>
         /\ FileBytes(c.lines) >= chunk_max_bytes
         /\ FileBytes(SubSeq(c.lines, 1, Len(c.lines) - 1)) < chunk_max_bytes
  /\ bpc = "done" =>
       /\ [k \in 1..Len(ChunkLines(chunks_written)) |-> ChunkLines(chunks_written)[k].row]
            = AcceptedRows(Len(build_rows))
       /\ report = <<Len(ChunkLines(chunks_written)), Cardinality(chunk_dir)>>
       /\ report[1] = build_processed - Len(build_missing)

\* two chunk files, the last one below the maximum, and a row left out
C25_Witness ==
  /\ bpc = "done" /\ chunks_written = 2 /\ build_missing # <<>>
  /\ FileBytes(ChunkNo(2).lines) < chunk_max_bytes
  /\ Len(ChunkNo(1).lines) = 2

\* ------------------------------------------------------------------------
\* llm_correction.py: one page through the model
\* ------------------------------------------------------------------------

MaxRetries == 2     \* the largest max_retries

\* sub in s
IsIn(sub, s) == \E i \in 0..(Len(s) - Len(sub)) : SubSeq(s, i + 1, i + Len(sub)) = sub

C_annee == <<"a","n","n","eacute","e">>
expected_columns == <<H_nom, C_annee, H_notes, H_adresse, H_horaires>>

\* LLMCorrector._validate_output
validate_output(output) ==
  IF output = <<>> \/ StripText(output) = <<>> THEN FALSE
  ELSE LET lines == Split(StripText(output), "\n")
           header_line == StripText(lines[1])
       IN  IF Count(header_line, TAB) > 0
           THEN LET cols == Split(header_line, TAB)
                IN  [k \in DOMAIN cols |-> StripText(cols[k])] = expected_columns
           ELSE /\ Len(lines) = 1
                /\ \E k \in DOMAIN expected_columns : IsIn(expected_columns[k], header_line)

O_Header == Join(<<TAB>>, expected_columns)

\* what the model may answer (after the strip() of _call_openai / _call_gemini)
ModelOutputs ==
  { <<>>,
    O_Header,                                                  \* a page with no entry
    O_Header \o <<"\n">> \o L_FourColumns,                       \* header and a row
    Join(<<" ", TAB>>, expected_columns),                      \* blanks after the names
    H_nom,                                                     \* one line, no tab
    H_notes \o <<"\n">> \o T_Dupont,                             \* two lines, no tab
    Join(<<TAB>>, <<H_nom, C_annee>>),                         \* two columns
    T_Dupont }

\* what a call of the model did
Raised == [raised |-> TRUE, output |-> <<>>]
Answered(output) == [raised |-> FALSE, output |-> output]

InitCorrect ==
  /\ RepairIdle /\ ExtractIdle /\ UploadIdle /\ StatusIdle /\ RunIdle /\ CallsIdle /\ BuildIdle /\ CheckIdle
  /\ max_retries \in 0..MaxRetries
  /\ attempt = 0 /\ model_log = <<>> /\ sleeps = <<>> /\ page_result = None
  /\ cpc = "loop"

ProcessingResult(success, retry_count, output_data) ==
  [success |-> success, retry_count |-> retry_count, output_data |-> output_data]

\* for attempt in range(max_retries + 1)
InAttempts == cpc = "loop" /\ attempt <= max_retries

\* the attempt that raised goes on to the next one
LastAttempt_OneMore == attempt = max_retries + 1

\* if attempt == max_retries
LastAttempt == attempt = max_retries

\* the model answers and _validate_output accepts the answer
P_Valid(output) ==
  /\ InAttempts /\ validate_output(output)
  /\ model_log' = Append(model_log, Answered(output))
  /\ page_result' = Some(ProcessingResult(TRUE, attempt, Some(output)))
  /\ cpc' = "returned"
  /\ UNCHANGED <<not_correct, max_retries, attempt, sleeps>>

\* the model answers and _validate_output rejects the answer: continue
P_Invalid(output) ==
  /\ InAttempts /\ ~validate_output(output)
  /\ model_log' = Append(model_log, Answered(output))
  /\ attempt' = attempt + 1
  /\ UNCHANGED <<not_correct, max_retries, sleeps, page_result, cpc>>

\* the call raises: the failure is returned at the last attempt, or
\* time.sleep(2 ** attempt) and the next attempt
P_Raised ==
  /\ InAttempts
  /\ model_log' = Append(model_log, Raised)
  /\ IF LastAttempt
     THEN /\ page_result' = Some(ProcessingResult(FALSE, attempt, None))
          /\ cpc' = "returned"
          /\ UNCHANGED <<attempt, sleeps>>
     ELSE /\ sleeps' = Append(sleeps, 2 ^ attempt)
          /\ attempt' = attempt + 1
          /\ UNCHANGED <<page_result, cpc>>
  /\ UNCHANGED <<not_correct, max_retries>>

\* after the loop: "Maximum retries exceeded"
P_Exceeded ==
  /\ cpc = "loop" /\ attempt > max_retries
  /\ page_result' = Some(ProcessingResult(FALSE, max_retries, None))
  /\ cpc' = "returned"
  /\ UNCHANGED <<not_correct, max_retries, attempt, model_log, sleeps>>

NextCorrect ==
  \/ \E output \in ModelOutputs : P_Valid(output)
  \/ \E output \in ModelOutputs : P_Invalid(output)
  \/ P_Raised
  \/ P_Exceeded

SpecCorrect == InitCorrect /\ [][NextCorrect]_vars

\* process_single_page is one call on one thread: it goes on until it returns
SpecCorrectFair == SpecCorrect /\ WF_vars(NextCorrect)

\* ------------------------------------------------------------------------
\* C26  Attempts, backoff and retry_count
\* ------------------------------------------------------------------------

\* the attempts that answered something _validate_output accepts
Accepted == { k \in DOMAIN model_log : ~model_log[k].raised /\ validate_output(model_log[k].output) }

\* the sleeps owed: 2^(k-1) seconds after each attempt k that raised and was
\* not attempt max_retries + 1
RECURSIVE Backoffs(_)
Backoffs(n) ==
  IF n = 0 THEN <<>>
  ELSE IF model_log[n].raised /\ n <= max_retries
       THEN Append(Backoffs(n - 1), 2 ^ (n - 1))
       ELSE Backoffs(n - 1)

\* the state of one call of process_single_page is as C26 says
AttemptsAsSpecified ==
  /\ Len(model_log) <= max_retries + 1
  /\ sleeps = Backoffs(Len(model_log))
  /\ page_result = None => Accepted = {}
  /\ page_result # None =>
       /\ page_result[1].retry_count = Len(model_log) - 1
       /\ page_result[1].success <=>
            Accepted = {Len(model_log)}
              /\ page_result[1].output_data = Some(model_log[Len(model_log)].output)
       /\ ~page_result[1].success =>
            Accepted = {} /\ Len(model_log) = max_retries + 1

BatchIds == {"batch_A", "batch_B"}

\* the models --model may name; the first is the default of the option
DEFAULT_MODEL == "model_1"
Models == {DEFAULT_MODEL, "model_2"}

\* what the batch JSON of the model looked for may be
Sidecars == {"missing", "no_id"} \cup BatchIds

\* the two options are in a mutually exclusive group that is required
InitCheck ==
  /\ RepairIdle /\ ExtractIdle /\ UploadIdle /\ StatusIdle /\ RunIdle /\ CallsIdle /\ BuildIdle /\ CorrectIdle
  /\ status_script \in {"openai", "gemini_image"}
  /\ \/ batch_id_arg \in { Some(b) : b \in BatchIds } /\ model_arg = None
     \/ batch_id_arg = None /\ model_arg \in { Some(mo) : mo \in Models }
  /\ sidecar \in Sidecars
  /\ batch_id = None /\ base_name = None /\ sidecar_read = FALSE
  /\ batch = None /\ shown = None /\ saved = None /\ kpc = "start"

\* args.model: the option, or its default
args_model == IF model_arg = None THEN DEFAULT_MODEL ELSE model_arg[1]

\* batch_id = args.batch_id; base_name = None
K_Start ==
  /\ kpc = "start"
  /\ batch_id' = batch_id_arg
  /\ base_name' = None
  /\ kpc' = "infer"
  /\ UNCHANGED <<not_check, status_script, batch_id_arg, model_arg, sidecar, sidecar_read,
                 batch, shown, saved>>

\* if args.model:  /  if args.model and not batch_name:
InfersFromModel ==
  IF status_script = "openai" THEN args_model # ""
  ELSE args_model # "" /\ batch_id = None

\* the batch JSON of the model is looked for and read
K_Infer ==
  /\ kpc = "infer" /\ InfersFromModel
  /\ IF sidecar = "missing"
     THEN kpc' = "exit" /\ UNCHANGED <<batch_id, base_name, sidecar_read>>
     ELSE /\ sidecar_read' = TRUE
          /\ batch_id' = IF sidecar = "no_id" THEN None ELSE Some(sidecar)
          /\ IF sidecar = "no_id"
             THEN kpc' = "exit" /\ UNCHANGED base_name
             ELSE kpc' = "retrieve" /\ base_name' = Some(args_model)
  /\ UNCHANGED <<not_check, status_script, batch_id_arg, model_arg, sidecar, batch, shown, saved>>

K_Given ==
  /\ kpc = "infer" /\ ~InfersFromModel
  /\ kpc' = "retrieve"
  /\ UNCHANGED <<not_check, status_script, batch_id_arg, model_arg, sidecar, batch_id,
                 base_name, sidecar_read, batch, shown, saved>>

\* batch = client.batches.retrieve(batch_id): the batch has an output file or not
K_Retrieve(has_output) ==
  /\ kpc = "retrieve"
  /\ batch' = Some([id |-> batch_id[1], output_file |-> has_output])
  /\ kpc' = "report"
  /\ UNCHANGED <<not_check, status_script, batch_id_arg, model_arg, sidecar, batch_id,
                 base_name, sidecar_read, shown, saved>>

\* print(f"id: {batch.id}") and the lines after it
K_Report ==
  /\ kpc = "report"
  /\ shown' = Some(batch[1].id)
  /\ kpc' = "download"
  /\ UNCHANGED <<not_check, status_script, batch_id_arg, model_arg, sidecar, batch_id,
                 base_name, sidecar_read, batch, saved>>

\* if output_file_id: save_output_file(...) under <base_name>.output.jsonl or
\* output-<batch_id>.jsonl
K_Download ==
  /\ kpc = "download"
  /\ saved' = IF batch[1].output_file
              THEN Some([of |-> batch[1].id,
                         file |-> IF base_name # None THEN base_name[1] ELSE batch_id[1]])
              ELSE None
  /\ kpc' = "done"
  /\ UNCHANGED <<not_check, status_script, batch_id_arg, model_arg, sidecar, batch_id,
                 base_name, sidecar_read, batch, shown>>

NextCheck ==
  \/ K_Start \/ K_Infer \/ K_Given
  \/ K_Retrieve(TRUE) \/ K_Retrieve(FALSE)
  \/ K_Report \/ K_Download

SpecCheck == InitCheck /\ [][NextCheck]_vars

\* ------------------------------------------------------------------------
\* C27  --batch-id and the batch JSON of the model
\* ------------------------------------------------------------------------

\* C27: in the OpenAI status checker, with --batch-id the batch retrieved,
\* shown and downloaded is the one of that id; the batch JSON of a model is
\* read only when --batch-id was not given, and the run aborts only when
\* --batch-id was not given and the batch JSON is missing.
C27_GivenBatchIdIsUsed ==
  status_script = "openai" =>
    /\ batch_id_arg # None =>
         /\ batch # None => batch[1].id = batch_id_arg[1]
         /\ shown # None => shown = batch_id_arg
         /\ saved # None => saved[1].of = batch_id_arg[1]
    /\ sidecar_read => batch_id_arg = None
    /\ kpc = "exit" => batch_id_arg = None /\ sidecar = "missing"

====
